---- MODULE Spec2Model ----
(***************************************************************************)
(* A model of go-repl (OpenEngineer/go-repl): the line editor of repl.go   *)
(* (buffer, cursor, view window, prompt row, history, reverse search,      *)
(* kill register) and the stdin collator of stdinreader.go.                *)
(*                                                                         *)
(* Bytes are integers 0..255, byte slices are sequences.  Go slice         *)
(* expressions are 0-based and half open; Slice(s, a, b) is s[a:b].        *)
(* The editor's methods are operators on a record r that holds the fields  *)
(* of the Repl struct; an operator returns the struct as the method leaves *)
(* it.  Terminal output is not part of the state; the state changes that   *)
(* the drawing routines make (overflow, statusFields, boundPromptRow,      *)
(* calcViewHeight) are.                                                    *)
(***************************************************************************)
EXTENDS Integers, Sequences, FiniteSets, TLC

\* ---------------------------------------------------------------- bounds
\* Longest buffer an inserting message may produce.
MaxBuf == 3
\* Most history entries an Enter may produce.
MaxHist == 3
\* Most messages dispatched (and resizes seen) in one behaviour.
MaxSteps == 5

\* ------------------------------------------------------------ environment
\* Handler.Prompt() of the example handlers returns "> ".
PromptLen == 2
\* What Handler.Tab may return: "" (basic_repl.go) or "  " (shell wrapper).
TabResults == { <<>>, <<32, 32>> }
\* Terminal sizes (width, height) term.GetSize may report.
Sizes == { <<10, 2>>, <<4, 2>> }
\* Printable bytes a keystroke may carry.
Typed == { 32, 97 }

\* A nil slice (backup, prevDel, filter); -1 is no byte.
Nil == << -1 >>

Min(a, b) == IF a < b THEN a ELSE b
Max(a, b) == IF a > b THEN a ELSE b

\* s[a:b] of Go, for 0 <= a <= b <= len(s); empty outside that.
Slice(s, a, b) ==
    LET lo == Max(a, 0)
        hi == Min(b, Len(s))
    IN  IF lo >= hi THEN <<>> ELSE SubSeq(s, lo + 1, hi)

\* len() of a slice that may be nil.
LenN(s) == IF s = Nil THEN 0 ELSE Len(s)
\* the bytes of a slice that may be nil.
Bytes(s) == IF s = Nil THEN <<>> ELSE s

\* strings.Contains(string(bs), string(f))
Contains(bs, f) ==
    \E i \in 0 .. (Len(bs) - Len(f)) : Slice(bs, i, i + Len(f)) = f

\* ------------------------------------------------------------ layout
\* The walk with the wrap one column late: x may stand on column w.
RECURSIVE relWalk_wrapsLate(_, _, _, _, _, _)
relWalk_wrapsLate(buffer, bufferPos, w, j, x, y) ==
    IF j >= Len(buffer) \/ j >= bufferPos THEN << x, y >>
    ELSE LET c  == buffer[j + 1]
             x1 == IF c = 10 THEN 0 ELSE x + 1
             y1 == IF c = 10 THEN y + 1 ELSE y
         IN  IF x1 > w THEN relWalk_wrapsLate(buffer, bufferPos, w, j + 1, 0, y1 + 1)
                       ELSE relWalk_wrapsLate(buffer, bufferPos, w, j + 1, x1, y1)

RECURSIVE relWalk(_, _, _, _, _, _)
relWalk(buffer, bufferPos, w, j, x, y) ==
    IF j >= Len(buffer) \/ j >= bufferPos THEN << x, y >>
    ELSE LET c  == buffer[j + 1]
             x1 == IF c = 10 THEN 0 ELSE x + 1
             y1 == IF c = 10 THEN y + 1 ELSE y
         IN  IF x1 = w THEN relWalk(buffer, bufferPos, w, j + 1, 0, y1 + 1)
                       ELSE relWalk(buffer, bufferPos, w, j + 1, x1, y1)

relCursorCoord(buffer, x0, bufferPos, w) == relWalk(buffer, bufferPos, w, 0, x0, 0)

calcHeight(buffer, x0, w) == relCursorCoord(buffer, x0, Len(buffer), w)[2] + 1

statusVisible(r) == ~(r.width < 10)

innerHeight(r) == IF statusVisible(r) THEN r.height - 1 ELSE r.height

searchActive(r) == r.filter # Nil

Panic(r) == [r EXCEPT !.status = "panic"]

\* cursorCoord slices r.buffer[r.viewStart:], which panics past the end.
cursorCoordPanics(r) == r.viewStart > Len(r.buffer) \/ r.viewStart < 0

cursorCoord(r, bufferPos) ==
    LET at(xy) == << xy[1], xy[2] + r.promptRow >>
    IN  at(relCursorCoord(Slice(r.buffer, r.viewStart, Len(r.buffer)),
                          PromptLen,
                          (IF bufferPos < 0 THEN r.bufferPos ELSE bufferPos)
                              - r.viewStart,
                          r.width))

syncCursor(r) == IF cursorCoordPanics(r) THEN Panic(r) ELSE r

updatePromptRow(r, row) ==
    LET row1 == IF row >= r.height THEN r.height - 1
                ELSE IF row < 0 THEN 0 ELSE row
    IN  [r EXCEPT !.promptRow = row1]


\* r.buffer now lies in an array of its own: no other slice shares it.
ownArray(r) ==
    [r EXCEPT !.pdAlias = -1, !.backupShared = FALSE, !.histShared = -1]

\* resetBuffer with r.buffer = r.buffer[:0] in place of make([]byte, 0).
resetBuffer_keepsArray(r) ==
    [r EXCEPT !.bufferPos = 0,
              !.buffer = <<>>, !.bufNil = FALSE,
              !.viewStart = 0, !.viewEnd = -1]

\* r.buffer = make([]byte, 0)
resetBuffer(r) ==
    [ownArray(r) EXCEPT !.bufferPos = 0,
                        !.buffer = <<>>, !.bufNil = FALSE, !.bufCap = 0,
                        !.viewStart = 0, !.viewEnd = -1]

\* The result of overflow(); afterOverflow is the struct as the call leaves it.
overflow(r) == calcHeight(r.buffer, PromptLen, r.width) > innerHeight(r)

\* overflow() that leaves the view as it is.
afterOverflow_keepsView(r) == r

afterOverflow(r) ==
    IF overflow(r) THEN r ELSE [r EXCEPT !.viewStart = 0, !.viewEnd = -1]

\* calcViewHeight first clamps viewEnd, then slices r.buffer[viewStart:viewEnd].
clampViewEnd(r) ==
    IF r.viewEnd > Len(r.buffer) THEN [r EXCEPT !.viewEnd = Len(r.buffer)] ELSE r

viewSlicePanics(r) == r.viewStart < 0 \/ r.viewStart > r.viewEnd

calcViewHeight(r) ==
    calcHeight(Slice(r.buffer, r.viewStart, r.viewEnd), PromptLen, r.width)

\* viewOverflow() on a struct whose viewEnd is clamped already.
viewOverflow(r) == calcViewHeight(r) > innerHeight(r)

boundPromptRow(r) ==
    LET bound(ye) ==
            IF ye >= innerHeight(r)
            THEN updatePromptRow(r, r.promptRow - (ye + 1 - innerHeight(r)))
            ELSE r
    IN  IF cursorCoordPanics(r) THEN Panic(r)
        ELSE bound(cursorCoord(r, IF r.viewEnd < 0 THEN Len(r.buffer)
                                  ELSE r.viewEnd)[2])

clearBuffer(r) ==
    resetBuffer(IF r.promptRow < 0 THEN updatePromptRow(r, 0) ELSE r)

clearScreen(r) == resetBuffer(updatePromptRow(r, 0))

\* for r.viewOverflow() { r.viewEnd -= 1 }
RECURSIVE shrinkViewEnd(_)
shrinkViewEnd(r) ==
    LET loop(r0) ==
            IF viewSlicePanics(r0) THEN Panic(r0)
            ELSE IF viewOverflow(r0)
                 THEN shrinkViewEnd([r0 EXCEPT !.viewEnd = @ - 1])
                 ELSE r0
    IN  loop(clampViewEnd(r))

\* for r.viewOverflow() { r.viewStart += 1 }
RECURSIVE growViewStart(_)
growViewStart(r) ==
    LET loop(r0) ==
            IF viewSlicePanics(r0) THEN Panic(r0)
            ELSE IF viewOverflow(r0)
                 THEN growViewStart([r0 EXCEPT !.viewStart = @ + 1])
                 ELSE r0
    IN  loop(clampViewEnd(r))

\* for !r.viewOverflow() && r.viewEnd < r.bufferLen() { r.viewEnd += 1 }
RECURSIVE growViewEnd(_)
growViewEnd(r) ==
    LET loop(r0) ==
            IF viewSlicePanics(r0) THEN Panic(r0)
            ELSE IF ~viewOverflow(r0) /\ r0.viewEnd < Len(r0.buffer)
                 THEN growViewEnd([r0 EXCEPT !.viewEnd = @ + 1])
                 ELSE r0
    IN  loop(clampViewEnd(r))

adjustBufferView(r) ==
    LET shrinkAfter(r1) == IF r1.status = "panic" THEN r1 ELSE shrinkViewEnd(r1)
        last(r0) ==
            IF viewSlicePanics(r0) THEN Panic(r0)
            ELSE IF viewOverflow(r0)
                 THEN shrinkViewEnd([r0 EXCEPT !.viewEnd = Len(r0.buffer)])
                 ELSE shrinkAfter(growViewEnd(r0))
    IN  IF r.bufferPos < r.viewStart
        THEN shrinkViewEnd([r EXCEPT !.viewStart = r.bufferPos,
                                     !.viewEnd = Len(r.buffer)])
        ELSE IF r.bufferPos > r.viewEnd
        THEN growViewStart([r EXCEPT !.viewEnd = r.bufferPos])
        ELSE last(clampViewEnd(r))

\* statusFields writes viewEnd when it is the sentinel.
statusFields(r) ==
    IF r.viewEnd < 0 THEN [r EXCEPT !.viewEnd = Len(r.buffer)] ELSE r

filterMatches(r, bs) == Contains(bs, Bytes(r.filter))

\* The matches counted by filterStatus, and the place of the selected one.
filterTot(r) ==
    Cardinality({ i \in 1 .. Len(r.history) : filterMatches(r, r.history[i]) })

filterCur(r) ==
    IF r.historyIdx >= 0 /\ r.historyIdx < Len(r.history)
       /\ filterMatches(r, r.history[r.historyIdx + 1])
    THEN Cardinality({ i \in (r.historyIdx + 2) .. Len(r.history) :
                        filterMatches(r, r.history[i]) })
    ELSE -1

\* filterStatus reaches panic("unexpected").
filterStatusPanics(r) == filterTot(r) # 0 /\ filterCur(r) = -1

\* writeStatus draws the match count only in this case.
statusShowsCount(r) ==
    /\ statusVisible(r)
    /\ searchActive(r)
    /\ Len(r.filter) > 0
    /\ r.width > Len(r.filter) + 16 + 10

writeStatus(r) ==
    LET draw(r1) ==
            IF searchActive(r1)
            THEN IF statusShowsCount(r1) /\ filterStatusPanics(r1)
                 THEN Panic(r1) ELSE r1
            ELSE syncCursor(statusFields(r1))
    IN  IF ~statusVisible(r) THEN syncCursor(r)
        ELSE draw(boundPromptRow(r))

clearStatus(r) == IF statusVisible(r) THEN syncCursor(r) ELSE r

stopSearch(r) == writeStatus(clearStatus([r EXCEPT !.filter = Nil]))

\* The capacity append gives a grown byte slice (runtime growslice): the
\* larger of the length needed and twice the old capacity, rounded up to an
\* allocation size class.
roundupsize(n) ==
    IF n <= 8 THEN 8 ELSE IF n <= 16 THEN 16 ELSE IF n <= 24 THEN 24
    ELSE IF n <= 32 THEN 32 ELSE IF n <= 48 THEN 48 ELSE 64

growCap(oldCap, needed) ==
    roundupsize(IF needed > 2 * oldCap THEN needed ELSE 2 * oldCap)

\* The slice s, which starts at index off of an array, after bytes src are
\* stored at indices from .. from+len(src)-1 of that array.
patch(s, off, from, src) ==
    [k \in 1 .. Len(s) |->
        LET idx == off + k - 1
        IN  IF idx >= from /\ idx < from + Len(src)
            THEN src[idx - from + 1] ELSE s[k]]

\* Bytes src are stored at indices from .. of the array behind r.buffer (an
\* append within capacity): every slice that shares the array sees them.
\* r.buffer itself is updated by the caller.
store(r, from, src) ==
    [r EXCEPT !.prevDel = IF r.pdAlias >= 0 /\ @ # Nil
                          THEN patch(@, r.pdAlias, from, src) ELSE @,
              !.backup = IF r.backupShared /\ @ # Nil
                         THEN patch(@, 0, from, src) ELSE @,
              !.history = IF r.histShared >= 0 /\ r.histShared < Len(@)
                          THEN [@ EXCEPT ![r.histShared + 1] = patch(@, 0, from, src)]
                          ELSE @]


\* force and addBytesToBuffer call each other.
RECURSIVE force(_, _, _)
RECURSIVE addBytesToBuffer(_, _, _)

\* The slow path with bs put after the tail instead of before it.
insertAndForce_atEnd(r, bs) ==
    force(r, r.buffer \o bs, r.bufferPos + Len(bs))

\* The slow path of addBytesToBuffer: rebuild the buffer and force a redraw.
insertAndForce(r, bs) ==
    force(r,
          Slice(r.buffer, 0, r.bufferPos) \o bs
              \o Slice(r.buffer, r.bufferPos, Len(r.buffer)),
          r.bufferPos + Len(bs))

\* shared is TRUE when bs is r.prevDel itself (insertPrevDel), so that a store
\* through the buffer's array is seen through bs as well.
addBytesToBuffer(r, bs, shared) ==
    LET n       == Len(bs)
        len_    == Len(r.buffer)
        inPlace == Len(bs) = 0 \/ Len(r.buffer) + Len(bs) <= r.bufCap
        \* r1 is the struct after the append, pd1 what bs reads after it
        after(r1, pd1) ==
            IF ~overflow(r1)
            THEN boundPromptRow(syncCursor(afterOverflow(r1)))
            ELSE insertAndForce([r1 EXCEPT !.bufferPos = @ - n,
                                           !.buffer = Slice(@, 0, len_)],
                                IF shared THEN Bytes(pd1) ELSE bs)
        append(r0) ==
            after([r0 EXCEPT !.bufferPos = @ + n,
                             !.buffer = @ \o bs,
                             !.bufNil = r.bufNil /\ n = 0,
                             !.bufCap = IF inPlace THEN @ ELSE growCap(@, len_ + n)],
                  r0.prevDel)
    IN  IF r.bufferPos = Len(r.buffer)
        THEN IF cursorCoordPanics(r) THEN Panic(r)
             ELSE append(IF inPlace THEN store(r, len_, bs) ELSE ownArray(r))
        ELSE insertAndForce(r, bs)

force(r, newBuffer, bufferPos) ==
    LET \* for _, b := range r.buffer[r.viewStart:r.viewEnd]
        writeView(r4) ==
            writeStatus(syncCursor(IF viewSlicePanics(r4) \/ r4.viewEnd > r4.bufCap
                                   THEN Panic(r4) ELSE r4))
        place(r3) ==
            writeStatus(syncCursor(
                [r3 EXCEPT !.bufferPos =
                    IF bufferPos >= Len(r3.buffer) THEN Len(r3.buffer)
                    ELSE bufferPos]))
        draw(r1) ==
            IF calcHeight(newBuffer, PromptLen, r1.width) > innerHeight(r1)
            THEN \* newBuffer is the copy made by copyBytes
                 writeView(adjustBufferView(
                     [ownArray(clearScreen(r1)) EXCEPT
                          !.buffer = newBuffer, !.bufNil = FALSE,
                          !.bufCap = Len(newBuffer),
                          !.bufferPos = bufferPos,
                          !.viewStart = r1.viewStart,
                          !.viewEnd = r1.viewEnd]))
            ELSE place(addBytesToBuffer(clearBuffer(r1), newBuffer, FALSE))
    IN  draw(clearStatus(r))

redraw(r) == force(r, r.buffer, r.bufferPos)

resize(r, w, h) ==
    IF w # r.width \/ h # r.height
    THEN redraw([r EXCEPT !.width = w, !.height = h])
    ELSE r

syncCursorOverflow(r) ==
    IF overflow(r) THEN redraw(r) ELSE syncCursor(afterOverflow(r))

moveToBufferEnd(r) ==
    IF searchActive(r) THEN stopSearch(r)
    ELSE syncCursorOverflow([r EXCEPT !.bufferPos = Len(r.buffer)])

moveToBufferStart(r) ==
    IF searchActive(r) THEN stopSearch(r)
    ELSE syncCursorOverflow([r EXCEPT !.bufferPos = 0])

\* The tail shared by the four cursor moves: redraw when the cursor reached
\* the edge of the view (atEdge), else only move the terminal cursor.
afterMove(r, atEdge) ==
    IF overflow(r) /\ atEdge THEN redraw(r) ELSE syncCursor(afterOverflow(r))

moveLeftOneChar(r) ==
    IF searchActive(r) THEN stopSearch(r)
    ELSE IF r.bufferPos > 0
         THEN afterMove([r EXCEPT !.bufferPos = @ - 1],
                        r.bufferPos - 1 <= r.viewStart)
         ELSE r

\* moveRightOneChar without the test against the buffer's length.
moveRightOneChar_noBound(r) ==
    IF searchActive(r) THEN stopSearch(r)
    ELSE afterMove([r EXCEPT !.bufferPos = @ + 1],
                   r.bufferPos + 1 >= r.viewEnd)

moveRightOneChar(r) ==
    IF searchActive(r) THEN stopSearch(r)
    ELSE IF r.bufferPos < Len(r.buffer)
         THEN afterMove([r EXCEPT !.bufferPos = @ + 1],
                        r.bufferPos + 1 >= r.viewEnd)
         ELSE r

\* ------------------------------------------------------------ phrases
\* A byte of the class [0-9a-zA-Z_\-\.] of phraseRe.
isPhraseByte(c) ==
    \/ (c >= 48 /\ c <= 57)
    \/ (c >= 65 /\ c <= 90)
    \/ (c >= 97 /\ c <= 122)
    \/ c = 95 \/ c = 45 \/ c = 46

\* re.FindAllIndex: the maximal runs of phrase bytes, as << start, stop >>.
RECURSIVE findAllIndex(_, _, _)
findAllIndex(buf, i, start) ==
    IF i >= Len(buf)
    THEN IF start >= 0 THEN << << start, i >> >> ELSE <<>>
    ELSE IF isPhraseByte(buf[i + 1])
         THEN findAllIndex(buf, i + 1, IF start >= 0 THEN start ELSE i)
         ELSE (IF start >= 0 THEN << << start, i >> >> ELSE <<>>)
                  \o findAllIndex(buf, i + 1, -1)

\* The positions with only the start of each phrase, not its end.
RECURSIVE phraseRes_startsOnly(_, _, _)
phraseRes_startsOnly(indices, i, len) ==
    IF i > Len(indices) THEN <<>>
    ELSE (IF i = 1 /\ indices[i][1] # 0 THEN << 0 >> ELSE <<>>)
         \o << indices[i][1] >>
         \o (IF i = Len(indices) /\ indices[i][2] # len THEN << len >> ELSE <<>>)
         \o phraseRes_startsOnly(indices, i + 1, len)

RECURSIVE phraseRes(_, _, _)
phraseRes(indices, i, len) ==
    IF i > Len(indices) THEN <<>>
    ELSE (IF i = 1 /\ indices[i][1] # 0 THEN << 0 >> ELSE <<>>)
         \o << indices[i][1], indices[i][2] >>
         \o (IF i = Len(indices) /\ indices[i][2] # len THEN << len >> ELSE <<>>)
         \o phraseRes(indices, i + 1, len)

phraseStartPositions(r) ==
    LET close(res) ==
            IF Len(res) = 0 \/ res[Len(res)] # Len(r.buffer)
            THEN Append(res, Len(r.buffer)) ELSE res
    IN  IF Len(r.buffer) = 0 THEN << 0 >>
        ELSE close(phraseRes(findAllIndex(r.buffer, 0, -1), 1, Len(r.buffer)))

\* << res, ok >>
nextPhrasePos(r) ==
    LET ret(res) == << res, res # r.bufferPos >>
        first(indices, after) ==
            IF after = {} THEN 0
            ELSE indices[CHOOSE k \in after : \A j \in after : k <= j]
        scan(indices) ==
            first(indices, { k \in 1 .. Len(indices) : indices[k] > r.bufferPos })
    IN  IF r.bufferPos = Len(r.buffer) THEN ret(Len(r.buffer))
        ELSE ret(scan(phraseStartPositions(r)))

\* prevPhrasePos that scans the positions from the front.
prevPhrasePos_fromFront(r) ==
    LET ret(res) == << res, res # r.bufferPos >>
        last(indices, before) ==
            IF before = {} THEN 0
            ELSE indices[CHOOSE k \in before : \A j \in before : k <= j]
        scan(indices) ==
            last(indices, { k \in 1 .. Len(indices) : indices[k] < r.bufferPos })
    IN  IF r.bufferPos = 0 THEN ret(0)
        ELSE ret(scan(phraseStartPositions(r)))

prevPhrasePos(r) ==
    LET ret(res) == << res, res # r.bufferPos >>
        last(indices, before) ==
            IF before = {} THEN 0
            ELSE indices[CHOOSE k \in before : \A j \in before : k >= j]
        scan(indices) ==
            last(indices, { k \in 1 .. Len(indices) : indices[k] < r.bufferPos })
    IN  IF r.bufferPos = 0 THEN ret(0)
        ELSE ret(scan(phraseStartPositions(r)))

moveLeftOnePhrase(r) ==
    LET move(p) ==
            IF p[2]
            THEN afterMove([r EXCEPT !.bufferPos = p[1]], p[1] <= r.viewStart)
            ELSE r
    IN  move(prevPhrasePos(r))

moveRightOnePhrase(r) ==
    LET move(p) ==
            IF p[2]
            THEN afterMove([r EXCEPT !.bufferPos = p[1]], p[1] >= r.viewEnd)
            ELSE r
    IN  move(nextPhrasePos(r))


\* ------------------------------------------------------------ history
\* appendToHistory without the comparison with the last entry.
appendToHistory_always(r, entry) ==
    [r EXCEPT !.history = Append(@, entry), !.histShared = Len(r.history)]

\* entry is the slice r.buffer itself (evalBuffer): an appended entry
\* shares the buffer's array.
appendToHistory(r, entry) ==
    LET n == Len(r.history)
    IN  IF n = 0
        THEN [r EXCEPT !.history = Append(@, entry), !.histShared = n]
        ELSE IF r.history[n] # entry
        THEN [r EXCEPT !.history = Append(@, entry), !.histShared = n]
        ELSE r

\* useHistoryEntry taking the backup on every call, not only when r.backup is
\* nil.
useHistoryEntry_overwritesBackup(r, i) ==
    LET show(r2) ==
            IF i < 0 \/ i >= Len(r2.history) THEN Panic(r2)
            ELSE force(r2, r2.history[i + 1], Len(r2.history[i + 1]))
        forget(r2) == [r2 EXCEPT !.backup = Nil, !.backupShared = FALSE]
        restore(r1) ==
            forget(IF r1.backup # Nil THEN force(r1, r1.backup, Len(r1.backup))
                   ELSE r1)
    IN  IF i = -1
        THEN restore([r EXCEPT !.historyIdx = -1])
        ELSE show([r EXCEPT
                      !.backup = IF r.bufNil THEN Nil ELSE r.buffer,
                      !.backupShared = ~r.bufNil,
                      !.historyIdx = i])

useHistoryEntry(r, i) ==
    LET show(r2) ==
            IF i < 0 \/ i >= Len(r2.history) THEN Panic(r2)
            ELSE force(r2, r2.history[i + 1], Len(r2.history[i + 1]))
        forget(r2) == [r2 EXCEPT !.backup = Nil, !.backupShared = FALSE]
        restore(r1) ==
            forget(IF r1.backup # Nil THEN force(r1, r1.backup, Len(r1.backup))
                   ELSE r1)
    IN  IF i = -1
        THEN restore([r EXCEPT !.historyIdx = -1])
        ELSE show([r EXCEPT
                      !.backup = IF @ # Nil THEN @
                                 ELSE IF r.bufNil THEN Nil ELSE r.buffer,
                      !.backupShared = IF r.backup # Nil THEN @ ELSE ~r.bufNil,
                      !.historyIdx = i])

historyForward(r) ==
    LET pick(m) ==
            IF m = {} THEN r
            ELSE useHistoryEntry(r, CHOOSE i \in m : \A j \in m : i <= j)
    IN  IF searchActive(r)
        THEN IF r.historyIdx >= 0 /\ r.historyIdx < Len(r.history) - 1
             THEN pick({ i \in (r.historyIdx + 1) .. (Len(r.history) - 1) :
                           filterMatches(r, r.history[i + 1]) })
             ELSE r
        ELSE IF r.historyIdx # -1
             THEN useHistoryEntry(r, IF r.historyIdx < Len(r.history) - 1
                                     THEN r.historyIdx + 1 ELSE -1)
             ELSE r

\* historyBack that enters the history at its oldest entry.
historyBack_fromOldest(r) ==
    LET pick(m) ==
            IF m = {} THEN r
            ELSE useHistoryEntry(r, CHOOSE i \in m : \A j \in m : i >= j)
    IN  IF searchActive(r)
        THEN IF r.historyIdx > 0
             THEN pick({ i \in 0 .. (r.historyIdx - 1) :
                           i < Len(r.history) /\ filterMatches(r, r.history[i + 1]) })
             ELSE r
        ELSE IF r.historyIdx = -1 /\ Len(r.history) = 0 THEN r
        ELSE IF r.historyIdx = -1 \/ r.historyIdx > 0
             THEN useHistoryEntry(r, IF r.historyIdx = -1 THEN 0
                                     ELSE r.historyIdx - 1)
             ELSE r

\* historyBack that, searching, takes the oldest matching entry below the
\* selection instead of the nearest.
historyBack_oldestMatch(r) ==
    LET pick(m) ==
            IF m = {} THEN r
            ELSE useHistoryEntry(r, CHOOSE i \in m : \A j \in m : i <= j)
    IN  IF searchActive(r)
        THEN IF r.historyIdx > 0
             THEN pick({ i \in 0 .. (r.historyIdx - 1) :
                           i < Len(r.history) /\ filterMatches(r, r.history[i + 1]) })
             ELSE r
        ELSE IF r.historyIdx = -1 /\ Len(r.history) = 0 THEN r
        ELSE IF r.historyIdx = -1 \/ r.historyIdx > 0
             THEN useHistoryEntry(r, IF r.historyIdx = -1 THEN Len(r.history) - 1
                                     ELSE r.historyIdx - 1)
             ELSE r

historyBack(r) ==
    LET pick(m) ==
            IF m = {} THEN r
            ELSE useHistoryEntry(r, CHOOSE i \in m : \A j \in m : i >= j)
    IN  IF searchActive(r)
        THEN IF r.historyIdx > 0
             THEN pick({ i \in 0 .. (r.historyIdx - 1) :
                           i < Len(r.history) /\ filterMatches(r, r.history[i + 1]) })
             ELSE r
        ELSE IF r.historyIdx = -1 /\ Len(r.history) = 0 THEN r
        ELSE IF r.historyIdx = -1 \/ r.historyIdx > 0
             THEN useHistoryEntry(r, IF r.historyIdx = -1 THEN Len(r.history) - 1
                                     ELSE r.historyIdx - 1)
             ELSE r

startReverseSearch(r) == writeStatus(clearStatus([r EXCEPT !.filter = <<>>]))

updateSearchResult(r) ==
    LET pick(m) ==
            IF m = {} THEN r
            ELSE useHistoryEntry(r, CHOOSE i \in m : \A j \in m : i >= j)
    IN  IF r.filter = Nil \/ Len(r.history) = 0 \/ Len(r.filter) = 0 THEN r
        ELSE IF r.historyIdx # -1 /\ filterMatches(r, r.buffer) THEN r
        ELSE pick({ i \in 0 .. (Len(r.history) - 1) :
                      filterMatches(r, r.history[i + 1]) })

\* ------------------------------------------------------------ editing
\* tab that hands Handler.Tab the whole buffer, not the bytes before the
\* cursor.
tab_wholeBuffer(r, extra) ==
    LET insert(r1) ==
            IF Len(extra) > 0 THEN addBytesToBuffer(r1, extra, FALSE) ELSE r1
    IN  IF r.bufferPos > r.bufCap THEN Panic(r)
        ELSE insert([r EXCEPT !.tabCalls = @ + 1, !.tabArg = r.buffer])

\* Handler.Tab, called with prec, returned extra.
tab(r, extra) ==
    LET insert(r1) ==
            IF Len(extra) > 0 THEN addBytesToBuffer(r1, extra, FALSE) ELSE r1
    IN  IF r.bufferPos > r.bufCap THEN Panic(r)
        ELSE insert([r EXCEPT !.tabCalls = @ + 1,
                              !.tabArg = Slice(r.buffer, 0, r.bufferPos)])

quit(r) == [r EXCEPT !.status = "exit"]

redrawScreen(r) == force(clearScreen(r), r.buffer, r.bufferPos)

\* backspace that drops the last byte of the buffer, wherever the cursor is.
backspace_lastByte(r) ==
    LET n == Len(r.buffer)
    IN  IF n > 0 /\ r.bufferPos > 0 /\ r.bufferPos <= n
        THEN force(r, Slice(r.buffer, 0, n - 1), r.bufferPos - 1)
        ELSE r

backspace(r) ==
    LET n         == Len(r.buffer)
        newPos    == r.bufferPos - 1
        \* r1 is the struct after append stored the tail one place down in
        \* r.buffer's array
        erase(r1, newBuffer) ==
            IF cursorCoordPanics(r1) THEN Panic(r1)
            ELSE IF /\ cursorCoord(r1, -1)[2] = cursorCoord(r1, newPos)[2]
                    /\ r1.bufferPos = Len(r1.buffer)
                    /\ ~overflow(r1)
            THEN [afterOverflow(r1) EXCEPT !.buffer = newBuffer,
                                           !.bufferPos = newPos]
            ELSE force(r1, newBuffer, newPos)
        shift(moved) ==
            erase([store(r, newPos, moved) EXCEPT
                       !.buffer = Slice(r.buffer, 0, newPos) \o moved
                                      \o << r.buffer[n] >>],
                  Slice(r.buffer, 0, newPos) \o moved)
    IN  IF n > 0 /\ r.bufferPos > 0 /\ r.bufferPos <= n
        THEN shift(Slice(r.buffer, newPos + 1, n))
        ELSE IF n > 0 /\ r.bufferPos > n THEN Panic(r)
        ELSE r

backspaceActiveBuffer(r) ==
    IF searchActive(r)
    THEN writeStatus(clearStatus(updateSearchResult(
             IF Len(r.filter) > 0
             THEN [r EXCEPT !.filter = Slice(@, 0, Len(r.filter) - 1)]
             ELSE r)))
    ELSE backspace(r)

deleteChar(r) ==
    IF searchActive(r) THEN stopSearch(r)
    ELSE IF r.bufferPos < Len(r.buffer)
         THEN force(r,
                    Slice(r.buffer, 0, r.bufferPos)
                        \o Slice(r.buffer, r.bufferPos + 1, Len(r.buffer)),
                    r.bufferPos)
         ELSE r

clearToEnd(r) ==
    IF r.bufferPos # Len(r.buffer)
    THEN force([r EXCEPT !.prevDel = Slice(r.buffer, r.bufferPos, Len(r.buffer)),
                         !.pdAlias = r.bufferPos],
               Slice(r.buffer, 0, r.bufferPos), r.bufferPos)
    ELSE r

clearToStart(r) ==
    IF r.bufferPos > 0
    THEN force([r EXCEPT !.prevDel = Slice(r.buffer, 0, r.bufferPos),
                         !.pdAlias = 0],
               Slice(r.buffer, r.bufferPos, Len(r.buffer)), 0)
    ELSE r

clearOnePhraseLeft(r) ==
    LET n == Len(r.buffer)
        \* r1 is the struct after append stored the tail at idx in r.buffer's
        \* array and prevDel was taken from that array
        clear(r1, idx, newBuffer, c1) ==
            IF cursorCoordPanics(r1) THEN Panic(r1)
            ELSE IF /\ r1.bufferPos = Len(r1.buffer)
                    /\ cursorCoord(r1, -1)[2] = c1[2]
                    /\ c1[1] > 0
                    /\ ~overflow(r1)
            THEN syncCursor([afterOverflow(r1) EXCEPT !.bufferPos = idx,
                                                      !.buffer = newBuffer])
            ELSE force(r1, newBuffer, idx)
        take(r1, idx, newBuffer) ==
            clear(r1, idx, newBuffer, cursorCoord(r1, idx))
        cut(idx, tail, newBuffer, stored) ==
            take([store(r, idx, tail) EXCEPT
                      !.buffer = stored,
                      !.prevDel = Slice(stored, idx, r.bufferPos),
                      !.pdAlias = idx],
                 idx, newBuffer)
        move(idx, tail) ==
            cut(idx, tail,
                Slice(r.buffer, 0, idx) \o tail,
                Slice(r.buffer, 0, idx) \o tail
                    \o Slice(r.buffer, idx + Len(tail), n))
        left(p) ==
            IF p[2] THEN move(p[1], Slice(r.buffer, r.bufferPos, n)) ELSE r
    IN  left(prevPhrasePos(r))

clearOnePhraseRight(r) ==
    LET right(p) ==
            IF p[2]
            THEN force([r EXCEPT !.prevDel = Slice(r.buffer, r.bufferPos, p[1]),
                                 !.pdAlias = r.bufferPos],
                       Slice(r.buffer, 0, r.bufferPos)
                           \o Slice(r.buffer, p[1], Len(r.buffer)),
                       r.bufferPos)
            ELSE r
    IN  right(nextPhrasePos(r))

insertPrevDel(r) == addBytesToBuffer(r, Bytes(r.prevDel), TRUE)

\* strings.TrimSpace on the bytes of the buffer.
isSpace(c) == c \in { 9, 10, 11, 12, 13, 32 }

RECURSIVE trimLeft(_)
trimLeft(s) ==
    IF Len(s) > 0 /\ isSpace(s[1]) THEN trimLeft(Tail(s)) ELSE s

RECURSIVE trimRight(_)
trimRight(s) ==
    IF Len(s) > 0 /\ isSpace(s[Len(s)])
    THEN trimRight(SubSeq(s, 1, Len(s) - 1)) ELSE s

TrimSpace(s) == trimRight(trimLeft(s))

\* evalBuffer without r.backup = nil.
evalBuffer_keepsBackup(r) ==
    LET archive(r2) ==
            resetBuffer([appendToHistory(r2, r2.buffer) EXCEPT
                             !.historyIdx = -1])
        eval(r1) ==
            archive([r1 EXCEPT !.evalCalls = @ + 1,
                               !.evalArg = TrimSpace(r1.buffer)])
    IN  eval(clearStatus(r))

\* evalBuffer that hands the buffer to Eval as it is.
evalBuffer_untrimmed(r) ==
    LET archive(r2) ==
            resetBuffer([appendToHistory(r2, r2.buffer) EXCEPT
                             !.historyIdx = -1,
                             !.backup = Nil, !.backupShared = FALSE])
        eval(r1) ==
            archive([r1 EXCEPT !.evalCalls = @ + 1,
                               !.evalArg = r1.buffer])
    IN  eval(clearStatus(r))

evalBuffer(r) ==
    LET archive(r2) ==
            resetBuffer([appendToHistory(r2, r2.buffer) EXCEPT
                             !.historyIdx = -1,
                             !.backup = Nil, !.backupShared = FALSE])
        eval(r1) ==
            archive([r1 EXCEPT !.evalCalls = @ + 1,
                               !.evalArg = TrimSpace(r1.buffer)])
    IN  eval(clearStatus(r))

handleCursorQuery(r, x, y) == writeStatus(updatePromptRow(r, y))


\* ------------------------------------------------------------ cursor reply
\* strings.Split(s, ";")
RECURSIVE split(_)
split(s) ==
    LET cut(k) == << SubSeq(s, 1, k - 1) >> \o split(SubSeq(s, k + 1, Len(s)))
        first(at) ==
            IF at = {} THEN << s >>
            ELSE cut(CHOOSE k \in at : \A j \in at : k <= j)
    IN  first({ k \in 1 .. Len(s) : s[k] = 59 })

\* strconv.Atoi returns no error: an optional sign, then decimal digits.
unsigned(s) == IF Len(s) > 0 /\ s[1] \in { 43, 45 } THEN Tail(s) ELSE s

atoiOk(s) ==
    /\ Len(unsigned(s)) > 0
    /\ \A k \in 1 .. Len(unsigned(s)) : unsigned(s)[k] >= 48 /\ unsigned(s)[k] <= 57

RECURSIVE digitsVal(_)
digitsVal(s) ==
    IF Len(s) = 0 THEN 0
    ELSE 10 * digitsVal(SubSeq(s, 1, Len(s) - 1)) + (s[Len(s)] - 48)

atoi(s) == IF s[1] = 45 THEN 0 - digitsVal(unsigned(s)) ELSE digitsVal(unsigned(s))

\* The body between "ESC [" and "R" of a cursor-position reply.
parseReply(r, body) ==
    LET reply(parts) ==
            IF ~atoiOk(parts[1]) THEN r
            ELSE IF Len(parts) < 2 THEN Panic(r)  \* parts[1]: index out of range
            ELSE IF ~atoiOk(parts[2]) THEN r
            ELSE handleCursorQuery(r, atoi(parts[2]) - 1, atoi(parts[1]) - 1)
    IN  reply(split(body))

isPrintable(c) == c >= 32

\* ------------------------------------------------------------ dispatch
\* A one-byte message; extra is what Handler.Tab returns if it is called.
onCtrlC(r) ==
    writeStatus(clearBuffer(IF searchActive(r) THEN stopSearch(r) ELSE r))

onTab(r, extra) == IF searchActive(r) THEN stopSearch(r) ELSE tab(r, extra)

onCtrlJ(r) ==
    IF searchActive(r) THEN stopSearch(r)
    ELSE writeStatus(addBytesToBuffer(clearStatus(r), << 10 >>, FALSE))

onCtrlK(r) == IF searchActive(r) THEN stopSearch(r) ELSE clearToEnd(r)

onEnter(r) == IF searchActive(r) THEN stopSearch(r) ELSE evalBuffer(r)

onCtrlQ(r) == IF searchActive(r) THEN stopSearch(r) ELSE clearOnePhraseRight(r)

onCtrlR(r) == IF ~searchActive(r) THEN startReverseSearch(r) ELSE r

onCtrlU(r) == IF searchActive(r) THEN stopSearch(r) ELSE clearToStart(r)

onCtrlY(r) ==
    IF searchActive(r) THEN stopSearch(r)
    ELSE writeStatus(insertPrevDel(clearStatus(r)))

onCtrlW(r) == IF searchActive(r) THEN stopSearch(r) ELSE clearOnePhraseLeft(r)

onEsc(r) ==
    IF searchActive(r) THEN stopSearch(r) ELSE writeStatus(clearBuffer(r))

\* Any other single byte: printable bytes go to the filter or the buffer.
onByte(r, c) ==
    IF c >= 32
    THEN IF searchActive(r)
         THEN writeStatus(updateSearchResult([r EXCEPT !.filter = Append(@, c)]))
         ELSE writeStatus(addBytesToBuffer(clearStatus(r), << c >>, FALSE))
    ELSE r

\* A message of one byte.
dispatchKey(r, c, extra) ==
    CASE c = 0  -> r
      [] c = 1  -> moveToBufferStart(r)
      [] c = 2  -> moveLeftOneChar(r)
      [] c = 3  -> onCtrlC(r)
      [] c = 4  -> quit(r)
      [] c = 5  -> moveToBufferEnd(r)
      [] c = 6  -> moveRightOneChar(r)
      [] c = 8  -> backspaceActiveBuffer(r)
      [] c = 9  -> onTab(r, extra)
      [] c = 10 -> onCtrlJ(r)
      [] c = 11 -> onCtrlK(r)
      [] c = 12 -> redrawScreen(r)
      [] c = 13 -> onEnter(r)
      [] c = 14 -> historyForward(r)
      [] c = 16 -> historyBack(r)
      [] c = 17 -> onCtrlQ(r)
      [] c = 18 -> onCtrlR(r)
      [] c = 21 -> onCtrlU(r)
      [] c = 22 -> r
      [] c = 25 -> onCtrlY(r)
      [] c = 23 -> onCtrlW(r)
      [] c = 27 -> onEsc(r)
      [] c = 127 -> backspaceActiveBuffer(r)
      [] OTHER  -> onByte(r, c)

\* A message that starts with ESC [.
dispatchCSI(r, b) ==
    LET n == Len(b)
    IN  IF n = 3
        THEN CASE b[3] = 65 -> historyBack(r)
               [] b[3] = 66 -> historyForward(r)
               [] b[3] = 67 -> moveRightOneChar(r)
               [] b[3] = 68 -> moveLeftOneChar(r)
               [] b[3] = 72 -> moveToBufferStart(r)
               [] b[3] = 70 -> moveToBufferEnd(r)
               [] OTHER -> r
        ELSE IF n = 4
        THEN IF b[3] = 51 /\ b[4] = 126 THEN deleteChar(r) ELSE r
        ELSE IF n = 6 /\ b[3] = 49 /\ b[4] = 59
        THEN IF b[5] = 53 /\ b[6] = 68 THEN moveLeftOnePhrase(r)
             ELSE IF b[5] = 53 /\ b[6] = 67 THEN moveRightOnePhrase(r)
             ELSE r
        ELSE IF n > 5 /\ b[n] = 82
        THEN parseReply(r, Slice(b, 2, n - 1))
        ELSE r

\* A longer message that ends in R: text typed during Eval, then the reply.
dispatchTrailingReply(r, b) ==
    LET n == Len(b)
        insert(r1, printable) ==
            IF Len(printable) > 0
            THEN writeStatus(addBytesToBuffer(clearStatus(r1), printable, FALSE))
            ELSE r1
        reply(i) ==
            insert(parseReply(r, Slice(b, i + 2, n - 1)),
                   SelectSeq(Slice(b, 0, i), isPrintable))
        last(at) ==
            IF at = {} THEN r ELSE reply(CHOOSE i \in at : \A j \in at : i >= j)
    IN  last({ i \in 0 .. (n - 2) : b[i + 1] = 27 /\ b[i + 2] = 91 })

dispatchBody(r, b, extra) ==
    LET n == Len(b)
    IN  IF n = 1 THEN dispatchKey(r, b[1], extra)
        ELSE IF n = 2 /\ b[1] = 195 THEN r
        ELSE IF n > 2 /\ b[1] = 27 /\ b[2] = 79 THEN r
        ELSE IF n > 2 /\ b[1] = 27 /\ b[2] = 91 THEN dispatchCSI(r, b)
        ELSE IF n > 6 /\ b[n] = 82 THEN dispatchTrailingReply(r, b)
        ELSE r

\* dispatch(b); evalCalls and evalArg record the call of Handler.Eval that
\* this dispatch makes, if any, tabCalls and tabArg the call of Handler.Tab.
dispatch(r, b, extra) ==
    dispatchBody([r EXCEPT !.evalCalls = 0, !.evalArg = Nil,
                           !.tabCalls = 0, !.tabArg = Nil], b, extra)


\* ================================================================ the editor
VARIABLES
    buffer,      \* r.buffer: the bytes being edited
    bufNil,      \* r.buffer is the nil slice
    bufCap,      \* cap(r.buffer)
    backup,      \* r.backup, or Nil
    prevDel,     \* r.prevDel, or Nil
    pdAlias,     \* index in r.buffer's array where r.prevDel starts; -1 if
                 \* r.prevDel lies in another array
    backupShared,\* r.backup lies in r.buffer's array (from index 0)
    histShared,  \* index of the history entry in r.buffer's array, or -1
    filter,      \* r.filter, or Nil
    bufferPos,   \* r.bufferPos
    viewStart,   \* r.viewStart
    viewEnd,     \* r.viewEnd
    promptRow,   \* r.promptRow
    width,       \* r.width
    height,      \* r.height
    history,     \* r.history
    historyIdx,  \* r.historyIdx
    status,      \* "run", "exit" (os.Exit) or "panic"
    evalCalls,   \* calls of Handler.Eval made by the last dispatch
    evalArg,     \* the argument of that call, or Nil
    tabCalls,    \* calls of Handler.Tab made by the last dispatch
    tabArg,      \* the argument of that call, or Nil
    killed,      \* the bytes the last Ctrl-K/U/Q/W took out of the buffer, or Nil
    steps        \* messages dispatched and resizes seen so far

\* ========================================================= the input pipeline
VARIABLES
    kernel,      \* bytes typed and not yet read from file descriptor 0
    arrived,     \* every byte typed so far
    readerSet,   \* _StdinReader.reader != nil
    readers,     \* the reading goroutines started and not yet returned
    bufd,        \* bytes the current bufio.Reader has read ahead
    rpc,         \* the reading goroutine: "none", "read", "append" or "stop"
    rb,          \* the byte b it holds, or -1
    stopNow,     \* its stopNow
    elapsed,     \* time.Now().After(r.lastTime.Add(MACHINE_INTERVAL))
    rbuffer,     \* _StdinReader.buffer
    locked,      \* the flusher holds _StdinReader.lock
    fpc,         \* the flusher: "sleep", "send" or "unlock"
    msg,         \* the message the flusher is sending
    mpc,         \* Loop: "read", "recv" or "dispatch"
    bts,         \* the message Loop is dispatching
    delivered,   \* the bytes of the messages dispatched so far, in order
    ppc,         \* the size poller: "sleep" or "force"
    termSize     \* what term.GetSize(0) returns

\* ================================================================== ReadLine
VARIABLES
    lpc,         \* ReadLine: "none" (not called), "loop" or (with the reader
                 \* followed) "read" and "recv", or "done" (returned)
    lbuffer,     \* its local buffer; at "done" the string it returned
    heard        \* the messages it has received since it was called

rlVars == << lpc, lbuffer, heard >>

\* ==================================================================== layout
VARIABLE
    lay          \* a call of relCursorCoord and of calcHeight: the arguments
                 \* buffer, x0, bufferPos, w and the results xy, height;
                 \* << >> when none is followed


edVars == << buffer, bufNil, bufCap, backup, prevDel, pdAlias, backupShared,
             histShared, filter, bufferPos, viewStart, viewEnd, promptRow,
             history, historyIdx, status, evalCalls, evalArg, tabCalls,
             tabArg, killed, steps >>

ioVars == << kernel, arrived, readerSet, readers, bufd, rpc, rb, stopNow, elapsed,
             rbuffer, locked, fpc, msg, mpc, bts, delivered, ppc, termSize >>

ioVarsButPpc == << kernel, arrived, readerSet, readers, bufd, rpc, rb, stopNow,
                   elapsed, rbuffer, locked, fpc, msg, mpc, bts, delivered,
                   termSize >>

vars == << edVars, width, height, ioVars, rlVars, lay >>

\* The Repl struct of the current state.
R == [ buffer |-> buffer, bufNil |-> bufNil, bufCap |-> bufCap,
       backup |-> backup, prevDel |-> prevDel, pdAlias |-> pdAlias,
       backupShared |-> backupShared, histShared |-> histShared,
       filter |-> filter, bufferPos |-> bufferPos,
       viewStart |-> viewStart, viewEnd |-> viewEnd, promptRow |-> promptRow,
       width |-> width, height |-> height,
       history |-> history, historyIdx |-> historyIdx,
       status |-> status, evalCalls |-> evalCalls, evalArg |-> evalArg,
       tabCalls |-> tabCalls, tabArg |-> tabArg ]

\* The next state is the struct r2; a panic ends the process where it stands.
Becomes(r2) ==
    IF r2.status = "panic"
    THEN /\ status' = "panic"
         /\ UNCHANGED << buffer, bufNil, bufCap, backup, prevDel, pdAlias,
                         backupShared, histShared, filter,
                         bufferPos, viewStart, viewEnd, promptRow, width, height,
                         history, historyIdx, evalCalls, evalArg,
                         tabCalls, tabArg >>
    ELSE /\ buffer' = r2.buffer
         /\ bufNil' = r2.bufNil
         /\ bufCap' = r2.bufCap
         /\ backup' = r2.backup
         /\ prevDel' = r2.prevDel
         /\ pdAlias' = r2.pdAlias
         /\ backupShared' = r2.backupShared
         /\ histShared' = r2.histShared
         /\ filter' = r2.filter
         /\ bufferPos' = r2.bufferPos
         /\ viewStart' = r2.viewStart
         /\ viewEnd' = r2.viewEnd
         /\ promptRow' = r2.promptRow
         /\ width' = r2.width
         /\ height' = r2.height
         /\ history' = r2.history
         /\ historyIdx' = r2.historyIdx
         /\ status' = r2.status
         /\ evalCalls' = r2.evalCalls
         /\ evalArg' = r2.evalArg
         /\ tabCalls' = r2.tabCalls
         /\ tabArg' = r2.tabArg

\* The bounds of the model on what a step may produce.
WithinBounds(r2) ==
    /\ Len(r2.buffer) <= MaxBuf
    /\ Len(r2.history) <= MaxHist
    /\ LenN(r2.filter) <= MaxBuf

\* NewRepl, then the start of Loop: the size is read, the prompt printed.
NewRepl ==
    /\ buffer = <<>> /\ bufNil = TRUE /\ bufCap = 0
    /\ backup = Nil /\ prevDel = Nil /\ pdAlias = -1 /\ filter = Nil
    /\ backupShared = FALSE /\ histShared = -1
    /\ bufferPos = 0 /\ viewStart = 0 /\ viewEnd = -1 /\ promptRow = -1
    /\ \E sz \in Sizes : width = sz[1] /\ height = sz[2]
    /\ history = <<>> /\ historyIdx = -1
    /\ status = "run" /\ evalCalls = 0 /\ evalArg = Nil
    /\ tabCalls = 0 /\ tabArg = Nil
    /\ killed = Nil
    /\ steps = 0

\* newStdinReader, then the start of Loop: the flusher and the size poller
\* run, Loop is about to call read for the first time.
newStdinReader ==
    /\ kernel = <<>> /\ arrived = <<>>
    /\ readerSet = FALSE /\ readers = 0 /\ bufd = <<>> /\ rpc = "none" /\ rb = -1
    /\ stopNow = FALSE /\ elapsed = TRUE
    /\ rbuffer = <<>> /\ locked = FALSE /\ fpc = "sleep" /\ msg = <<>>
    /\ mpc = "read" /\ bts = <<>> /\ delivered = <<>>
    /\ ppc = "sleep" /\ termSize = << width, height >>

\* Handler.Eval has not been called: no ReadLine is running.
noReadLine == lpc = "none" /\ lbuffer = <<>> /\ heard = <<>>

\* No call of relCursorCoord is followed on its own.
noLayout == lay = <<>>

Init == NewRepl /\ newStdinReader /\ noReadLine /\ noLayout

\* The struct as dispatch finds it: nothing evaluated yet for this message.
Fresh == [R EXCEPT !.evalCalls = 0, !.evalArg = Nil,
                   !.tabCalls = 0, !.tabArg = Nil]

\* Loop took a message from the reader and dispatch ran the arm that the
\* message selects, leaving r2; kills tells that the arm is one of the four
\* commands whose deletion Ctrl-Y gives back.
Dispatch(r2, kills) ==
    /\ status = "run"
    /\ steps < MaxSteps
    /\ WithinBounds(r2)
    /\ Becomes(r2)
    /\ killed' = IF /\ kills
                    /\ ~searchActive(R)
                    /\ r2.status = "run"
                    /\ Len(r2.buffer) < Len(buffer)
                 THEN Slice(buffer, r2.bufferPos,
                            r2.bufferPos + Len(buffer) - Len(r2.buffer))
                 ELSE killed
    /\ steps' = steps + 1
    /\ UNCHANGED << ioVars, rlVars, lay >>

\* One action per message the terminal sends; each runs dispatch's arm for it.
CtrlA == Dispatch(moveToBufferStart(Fresh), FALSE)
CtrlB == Dispatch(moveLeftOneChar(Fresh), FALSE)
CtrlC == Dispatch(onCtrlC(Fresh), FALSE)
CtrlD == Dispatch(quit(Fresh), FALSE)
CtrlE == Dispatch(moveToBufferEnd(Fresh), FALSE)
CtrlF == Dispatch(moveRightOneChar(Fresh), FALSE)
CtrlH == Dispatch(backspaceActiveBuffer(Fresh), FALSE)
Tab == \E extra \in TabResults : Dispatch(onTab(Fresh, extra), FALSE)
CtrlJ == Dispatch(onCtrlJ(Fresh), FALSE)
CtrlK == Dispatch(onCtrlK(Fresh), TRUE)
CtrlL == Dispatch(redrawScreen(Fresh), FALSE)
Enter == Dispatch(onEnter(Fresh), FALSE)
CtrlN == Dispatch(historyForward(Fresh), FALSE)
CtrlP == Dispatch(historyBack(Fresh), FALSE)
CtrlQ == Dispatch(onCtrlQ(Fresh), TRUE)
CtrlR == Dispatch(onCtrlR(Fresh), FALSE)
CtrlU == Dispatch(onCtrlU(Fresh), TRUE)
CtrlW == Dispatch(onCtrlW(Fresh), TRUE)
CtrlY == Dispatch(onCtrlY(Fresh), FALSE)
Esc == Dispatch(onEsc(Fresh), FALSE)
Backspace == Dispatch(backspaceActiveBuffer(Fresh), FALSE)
TypeByte == \E c \in Typed : Dispatch(onByte(Fresh, c), FALSE)
ArrowUp == Dispatch(historyBack(Fresh), FALSE)
ArrowDown == Dispatch(historyForward(Fresh), FALSE)
ArrowRight == Dispatch(moveRightOneChar(Fresh), FALSE)
ArrowLeft == Dispatch(moveLeftOneChar(Fresh), FALSE)
Home == Dispatch(moveToBufferStart(Fresh), FALSE)
End == Dispatch(moveToBufferEnd(Fresh), FALSE)
Delete == Dispatch(deleteChar(Fresh), FALSE)
CtrlLeft == Dispatch(moveLeftOnePhrase(Fresh), FALSE)
CtrlRight == Dispatch(moveRightOnePhrase(Fresh), FALSE)

\* The terminal's answer to queryCursorPos: ESC [ row ; 1 R.
CursorReply ==
    \E row \in 1 .. 2 :
        Dispatch(dispatchCSI(Fresh, << 27, 91, 48 + row, 59, 49, 82 >>), FALSE)

\* The size poller saw (w, h) and called resize while no dispatch was running.
Resize ==
    /\ status = "run"
    /\ steps < MaxSteps
    /\ \E sz \in Sizes :
          /\ << width, height >> # sz
          /\ Becomes(resize(Fresh, sz[1], sz[2]))
    /\ steps' = steps + 1
    /\ UNCHANGED << killed, ioVars, rlVars, lay >>

Next ==
    \/ CtrlA \/ CtrlB \/ CtrlC \/ CtrlD \/ CtrlE \/ CtrlF \/ CtrlH \/ Tab
    \/ CtrlJ \/ CtrlK \/ CtrlL \/ Enter \/ CtrlN \/ CtrlP \/ CtrlQ \/ CtrlR
    \/ CtrlU \/ CtrlW \/ CtrlY \/ Esc \/ Backspace \/ TypeByte
    \/ ArrowUp \/ ArrowDown \/ ArrowRight \/ ArrowLeft \/ Home \/ End
    \/ Delete \/ CtrlLeft \/ CtrlRight \/ CursorReply \/ Resize

Spec == Init /\ [][Next]_vars

\* ------------------------------------------------- a session with history
\* Lines a user has typed and entered before the behaviour starts.
Entries == { << 97 >>, << 97, 97 >> }

\* The histories such sessions leave: no entry equals the one before it.
Histories ==
    { h \in UNION { [1 .. n -> Entries] : n \in 1 .. MaxHist } :
        \A k \in 1 .. (Len(h) - 1) : h[k] # h[k + 1] }

\* The bytes of a line arrive one message each: dispatch's default arm.
RECURSIVE typeLine(_, _)
typeLine(r, line) ==
    IF line = <<>> \/ r.status # "run" THEN r
    ELSE typeLine(onByte(r, Head(line)), Tail(line))

\* A session that enters the lines of h: each line is typed, Enter calls
\* Eval, and the terminal answers queryCursorPos with ESC [ 2 ; 1 R.
RECURSIVE session(_, _)
session(r, h) ==
    LET answered(r1) ==
            IF r1.status # "run" THEN r1
            ELSE parseReply([r1 EXCEPT !.evalCalls = 0, !.evalArg = Nil],
                            << 50, 59, 49 >>)
    IN  IF h = <<>> \/ r.status # "run" THEN r
        ELSE session(answered(onEnter(typeLine(r, Head(h)))), Tail(h))

\* The struct NewRepl builds, with the size Loop reads first.
NewStruct(sz) ==
    [ buffer |-> <<>>, bufNil |-> TRUE, bufCap |-> 0,
      backup |-> Nil, prevDel |-> Nil, pdAlias |-> -1,
      backupShared |-> FALSE, histShared |-> -1,
      filter |-> Nil, bufferPos |-> 0,
      viewStart |-> 0, viewEnd |-> -1, promptRow |-> -1,
      width |-> sz[1], height |-> sz[2],
      history |-> <<>>, historyIdx |-> -1,
      status |-> "run", evalCalls |-> 0, evalArg |-> Nil,
      tabCalls |-> 0, tabArg |-> Nil ]

\* The program runs and its struct is r.
StructIs(r) ==
    /\ r.status = "run"
    /\ buffer = r.buffer /\ bufNil = r.bufNil /\ bufCap = r.bufCap
    /\ backup = r.backup /\ prevDel = r.prevDel
    /\ pdAlias = r.pdAlias /\ backupShared = r.backupShared
    /\ histShared = r.histShared /\ filter = r.filter
    /\ bufferPos = r.bufferPos /\ viewStart = r.viewStart
    /\ viewEnd = r.viewEnd /\ promptRow = r.promptRow
    /\ width = r.width /\ height = r.height
    /\ history = r.history /\ historyIdx = r.historyIdx
    /\ status = r.status /\ evalCalls = r.evalCalls
    /\ evalArg = r.evalArg
    /\ tabCalls = r.tabCalls /\ tabArg = r.tabArg

\* The state a session of entered lines leaves the program in.
AfterLines ==
    /\ \E sz \in Sizes : \E h \in Histories :
          StructIs(session(NewStruct(sz), h))
    /\ killed = Nil
    /\ steps = 2
    /\ newStdinReader
    /\ noReadLine
    /\ noLayout

SpecAfterLines == AfterLines /\ [][Next]_vars

\* ------------------------------------------------- other terminal sizes
\* A terminal of one row, one a single column wider than the prompt, and one
\* wide enough for the match count of the status row.
OtherSizes == { << 4, 1 >>, << 3, 2 >>, << 40, 2 >> }

\* The program was started in a terminal of such a size, and a session
\* entered some lines or none.
AfterLinesOtherSizes ==
    /\ \E sz \in OtherSizes : \E h \in Histories \cup { <<>> } :
          StructIs(session(NewStruct(sz), h))
    /\ killed = Nil
    /\ steps = 2
    /\ newStdinReader
    /\ noReadLine
    /\ noLayout

SpecOtherSizes == AfterLinesOtherSizes /\ [][Next]_vars

\* ------------------------------------------------ ReadLine, called from Eval
\* Most messages one call of ReadLine receives before the Enter.
MaxHeard == 3

\* Messages the reader hands to ReadLine, the lone Enter apart: a letter, a
\* pasted letter and Enter, a tab and a letter, DEL, text around an ESC, Up.
LineMsgs ==
    { << 97 >>, << 97, 13 >>, << 9, 98 >>, << 127 >>,
      << 98, 27, 99 >>, << 27, 91, 65 >> }

\* The loop over a message with continue in place of break at byte 27.
RECURSIVE readLineBytes_pastEsc(_)
readLineBytes_pastEsc(m) ==
    IF m = <<>> THEN <<>>
    ELSE IF Head(m) >= 32
         THEN << Head(m) >> \o readLineBytes_pastEsc(Tail(m))
         ELSE readLineBytes_pastEsc(Tail(m))

\* for _, b := range bts: the bytes a message adds to ReadLine's buffer.
RECURSIVE readLineBytes(_)
readLineBytes(m) ==
    IF m = <<>> THEN <<>>
    ELSE IF Head(m) = 27 THEN <<>>
    ELSE IF Head(m) >= 32
         THEN << Head(m) >> \o readLineBytes(Tail(m))
         ELSE readLineBytes(Tail(m))

\* Enter with no search active: evalBuffer runs up to Handler.Eval, and the
\* handler calls ReadLine (basic_repl.go).
EvalReadLine ==
    /\ status = "run"
    /\ lpc = "none"
    /\ steps < MaxSteps
    /\ ~searchActive(R)
    /\ Becomes([clearStatus(Fresh) EXCEPT !.evalCalls = @ + 1,
                                          !.evalArg = TrimSpace(buffer)])
    /\ lpc' = "loop"
    /\ lbuffer' = <<>>
    /\ heard' = <<>>
    /\ steps' = steps + 1
    /\ UNCHANGED << killed, ioVars, lay >>

\* One turn of ReadLine's loop on a message that is not the lone Enter.
ReadLineText ==
    /\ status = "run"
    /\ lpc = "loop"
    /\ Len(heard) < MaxHeard
    /\ \E m \in LineMsgs :
          /\ heard' = Append(heard, m)
          /\ lbuffer' = lbuffer \o readLineBytes(m)
    /\ UNCHANGED << edVars, width, height, ioVars, lay, lpc >>

\* The turn on the message [13]: break, return string(buffer).
ReadLineEnter ==
    /\ status = "run"
    /\ lpc = "loop"
    /\ heard' = Append(heard, << 13 >>)
    /\ lpc' = "done"
    /\ UNCHANGED << edVars, width, height, ioVars, lay, lbuffer >>

\* Handler.Eval returns and evalBuffer runs to its end.
EvalReturns ==
    /\ status = "run"
    /\ lpc = "done"
    /\ Becomes(resetBuffer([appendToHistory(R, buffer) EXCEPT
                                !.historyIdx = -1,
                                !.backup = Nil, !.backupShared = FALSE]))
    /\ lpc' = "none"
    /\ lbuffer' = <<>>
    /\ heard' = <<>>
    /\ UNCHANGED << killed, steps, ioVars, lay >>

\* A line is typed while no ReadLine runs: Loop dispatches the bytes.
TypeLine ==
    /\ lpc = "none"
    /\ TypeByte

NextReadLine ==
    TypeLine \/ EvalReadLine \/ ReadLineText \/ ReadLineEnter \/ EvalReturns

SpecReadLine == Init /\ [][NextReadLine]_vars

\* ------------------------------------------------- jumping over a typed line
\* Longest of the short lines typed before the jumps.
MaxLine == 4

\* The lines typed: "ab cd ef", and every line of up to MaxLine bytes of
\* "a", "-" and " ".
PhraseLines ==
    { << 97, 98, 32, 99, 100, 32, 101, 102 >> }
        \cup UNION { [1 .. n -> { 97, 45, 32 }] : n \in 0 .. MaxLine }

\* A terminal of 20 columns: the prompt is drawn, the terminal answers
\* queryCursorPos with ESC [ 1 ; 1 R, and a line is typed.
LineTyped ==
    /\ \E h \in { 3, 24 } : \E l \in PhraseLines :
          StructIs(typeLine(parseReply(NewStruct(<< 20, h >>), << 49, 59, 49 >>),
                            l))
    /\ killed = Nil
    /\ steps = 0
    /\ newStdinReader
    /\ noReadLine
    /\ noLayout

\* Loop dispatches ESC [ 1 ; 5 D.
JumpLeft ==
    /\ status = "run"
    /\ Becomes(moveLeftOnePhrase(Fresh))
    /\ UNCHANGED << killed, steps, ioVars, rlVars, lay >>

\* Loop dispatches ESC [ 1 ; 5 C.
JumpRight ==
    /\ status = "run"
    /\ Becomes(moveRightOnePhrase(Fresh))
    /\ UNCHANGED << killed, steps, ioVars, rlVars, lay >>

NextPhrases == JumpLeft \/ JumpRight

SpecPhrases == LineTyped /\ [][NextPhrases]_vars

\* ------------------------------------------------- the layout functions
\* Longest byte string laid out, the example "abcdef" apart.
MaxLay == 4

\* The byte strings laid out: "abcdef", and the strings of "a" and "\n".
LayBuffers ==
    { << 97, 98, 99, 100, 101, 102 >> }
        \cup UNION { [1 .. n -> { 97, 10 }] : n \in 0 .. MaxLay }

\* The widths laid out in.
LayWidths == 1 .. 5

\* relCursorCoord(buffer, x0, 0, w) and calcHeight(buffer, x0, w) are called,
\* with x0 < w.
LayoutCalled ==
    /\ NewRepl
    /\ newStdinReader
    /\ noReadLine
    /\ \E b \in LayBuffers : \E w \in LayWidths : \E x0 \in 0 .. (w - 1) :
          lay = [ buffer |-> b, x0 |-> x0, w |-> w, bufferPos |-> 0,
                  xy |-> relCursorCoord(b, x0, 0, w),
                  height |-> calcHeight(b, x0, w) ]

\* relCursorCoord is called for the next position, up to one past the end.
NextCoord ==
    /\ lay.bufferPos <= Len(lay.buffer)
    /\ lay' = [lay EXCEPT
                  !.bufferPos = @ + 1,
                  !.xy = relCursorCoord(lay.buffer, lay.x0, lay.bufferPos + 1,
                                        lay.w)]
    /\ UNCHANGED << edVars, width, height, ioVars, rlVars >>

SpecLayout == LayoutCalled /\ [][NextCoord]_vars


\* ================================================== properties of the editor
\* C1: after every dispatched message the cursor index lies within the
\* buffer: 0 <= cursor <= |buffer|.
C1_CursorInBuffer == 0 <= bufferPos /\ bufferPos <= Len(buffer)

\* Messages were dispatched and the cursor stands strictly inside the buffer.
C1_Witness == steps > 0 /\ 0 < bufferPos /\ bufferPos < Len(buffer)

\* C2: after every dispatched message and every resize, whenever the buffer
\* overflows (its rendered height exceeds innerHeight) the view satisfies
\* viewStart <= cursor <= viewEnd <= |buffer|, and the rendered height of
\* buffer[viewStart:viewEnd] is at most innerHeight.
C2_CursorInView ==
    (status = "run" /\ overflow(R)) =>
        /\ viewStart <= bufferPos
        /\ bufferPos <= viewEnd
        /\ viewEnd <= Len(buffer)
        /\ calcHeight(Slice(buffer, viewStart, viewEnd), PromptLen, width)
               <= innerHeight(R)

\* C3: after every dispatched message, historyIdx = -1 exactly when there is
\* no backup of the buffer.
C3_BackupIffInHistory == (historyIdx = -1) <=> (backup = Nil)

\* A history entry is shown and the typed buffer is kept in the backup.
C3_Witness == historyIdx >= 0 /\ backup # Nil /\ Len(backup) > 0

\* C4: no two consecutive history entries are equal.
C4_NoConsecutiveDuplicates ==
    \A i \in 2 .. Len(history) : history[i] # history[i - 1]

\* Enter has just archived a second entry.
C4_Witness == Len(history) = 2 /\ evalCalls = 1

\* C5: history is append-only: every step leaves the history as it was or
\* appends exactly one entry to it, and no existing entry changes.
C5_HistoryAppendOnly ==
    [][ \/ history' = history
        \/ /\ Len(history') = Len(history) + 1
           /\ SubSeq(history', 1, Len(history)) = history ]_vars

\* An entry loaded from history was edited after a kill, and the entry in
\* the history is not what the buffer holds.
C5_Witness ==
    /\ historyIdx >= 0 /\ historyIdx < Len(history)
    /\ prevDel # Nil
    /\ buffer # history[historyIdx + 1]

\* The bytes the pure-operator properties insert.
Printable == Typed \cup { 126, 255 }

\* C8: with search inactive, Enter calls Eval exactly once, with the buffer
\* trimmed of surrounding whitespace; appends the buffer to history unless it
\* equals the last entry; and leaves the buffer empty, the cursor at 0,
\* historyIdx = -1, no backup, viewStart = 0 and viewEnd = -1.
C8_EnterEvaluates ==
    (status = "run" /\ ~searchActive(R)) =>
        LET r2 == dispatch(R, << 13 >>, <<>>)
            n  == Len(history)
            a  == r2.evalArg
        IN  /\ r2.status = "run"
            /\ r2.evalCalls = 1
            /\ \E i \in 0 .. Len(buffer) : \E j \in i .. Len(buffer) :
                  /\ a = Slice(buffer, i, j)
                  /\ \A k \in 1 .. Len(buffer) :
                        (k <= i \/ k > j) => buffer[k] \in { 9, 10, 11, 12, 13, 32 }
                  /\ Len(a) > 0 =>
                        /\ a[1] \notin { 9, 10, 11, 12, 13, 32 }
                        /\ a[Len(a)] \notin { 9, 10, 11, 12, 13, 32 }
            /\ r2.history = IF n > 0 /\ history[n] = buffer
                            THEN history ELSE Append(history, buffer)
            /\ r2.buffer = <<>>
            /\ r2.bufferPos = 0
            /\ r2.historyIdx = -1
            /\ r2.backup = Nil
            /\ r2.viewStart = 0
            /\ r2.viewEnd = -1

\* Enter has just handed Eval a trimmed line that differs from the archived
\* buffer, and the buffer is reset.
C8_Witness ==
    /\ evalCalls = 1 /\ evalArg # Nil
    /\ history # <<>> /\ evalArg # history[Len(history)]
    /\ buffer = <<>> /\ bufferPos = 0

\* C9: with search inactive, Ctrl-Y inserts at the cursor exactly the bytes
\* the last Ctrl-K, Ctrl-U, Ctrl-Q or Ctrl-W removed, whatever messages
\* without a kill were dispatched since.
C9_YankInsertsKilled ==
    (status = "run" /\ ~searchActive(R) /\ killed # Nil) =>
        LET r2 == dispatch(R, << 25 >>, <<>>)
        IN  /\ r2.status = "run"
            /\ r2.buffer = Slice(buffer, 0, bufferPos) \o killed
                               \o Slice(buffer, bufferPos, Len(buffer))

\* C10: with search inactive, inserting a printable byte and then
\* dispatching backspace leaves the buffer and the cursor as they were.
C10_InsertBackspaceIdentity ==
    (status = "run" /\ ~searchActive(R)) =>
        \A b \in Printable :
            LET r1 == dispatch(R, << b >>, <<>>)
                r2 == dispatch(r1, << 127 >>, <<>>)
            IN  /\ r2.status = "run"
                /\ r2.buffer = buffer
                /\ r2.bufferPos = bufferPos

\* The cursor stands inside a buffer, and the insertion makes it overflow.
C10_Witness ==
    /\ status = "run" /\ ~searchActive(R)
    /\ 0 < bufferPos /\ bufferPos < Len(buffer)
    /\ LET r1 == dispatch(R, << 97 >>, <<>>)
       IN  /\ r1.buffer = Slice(buffer, 0, bufferPos) \o << 97 >>
                              \o Slice(buffer, bufferPos, Len(buffer))
           /\ overflow(r1)

\* C11: with search inactive, wherever the cursor stands (the end of the
\* buffer included) and whatever prevDel held, Ctrl-K followed by Ctrl-Y
\* leaves the contents of the buffer as they were before the Ctrl-K.
C11_KillYankIdentity ==
    (status = "run" /\ ~searchActive(R)) =>
        LET r1 == dispatch(R, << 11 >>, <<>>)
            r2 == dispatch(r1, << 25 >>, <<>>)
        IN  /\ r2.status = "run"
            /\ r2.buffer = buffer

\* C12: history round trip. When a message moves from historyIdx = -1 into
\* history, the buffer B it found is kept as backup; backup stays B through
\* every further Up, Down and edit of the shown entry; and the Down that
\* returns to historyIdx = -1 restores buffer = B and leaves no backup.
C12_HistoryRoundTrip ==
    [][status' = "run" =>
         /\ (historyIdx = -1 /\ historyIdx' # -1) => backup' = buffer
         /\ (historyIdx # -1 /\ historyIdx' # -1) => backup' = backup
         /\ (historyIdx # -1 /\ historyIdx' = -1 /\ evalCalls' = 0) =>
                /\ buffer' = backup
                /\ backup' = Nil]_vars

\* The newest entry is shown and was edited, over a non-empty B: the next
\* Down returns to historyIdx = -1 with B in the buffer.
C12_Witness ==
    /\ status = "run" /\ ~searchActive(R)
    /\ historyIdx = Len(history) - 1 /\ historyIdx >= 0
    /\ backup # Nil /\ Len(backup) > 0
    /\ buffer # history[historyIdx + 1] /\ buffer # backup
    /\ LET r2 == dispatch(R, << 27, 91, 66 >>, <<>>)
       IN  r2.historyIdx = -1 /\ r2.buffer = backup /\ r2.backup = Nil

\* C13: while a reverse search is active, each of Left, Right, Ctrl-Left,
\* Ctrl-Right, Home, End, Delete, Enter, Esc, Tab, Ctrl-C, Ctrl-J, Ctrl-K,
\* Ctrl-U, Ctrl-W, Ctrl-Q and Ctrl-Y ends it: the filter is absent afterwards.
C13_SearchEnds ==
    LET enders ==
            { << 27, 91, 68 >>, << 27, 91, 67 >>,
              << 27, 91, 49, 59, 53, 68 >>, << 27, 91, 49, 59, 53, 67 >>,
              << 27, 91, 72 >>, << 27, 91, 70 >>, << 27, 91, 51, 126 >>,
              << 13 >>, << 27 >>, << 9 >>, << 3 >>, << 10 >>,
              << 11 >>, << 21 >>, << 23 >>, << 17 >>, << 25 >> }
    IN  (status = "run" /\ searchActive(R)) =>
            \A b \in enders : \A extra \in TabResults :
                LET r2 == dispatch(R, b, extra)
                IN  r2.status = "run" /\ r2.filter = Nil

\* C14: while the filter is present, Up (Down) either leaves the selection
\* and the buffer as they are, or moves historyIdx to the nearest lower
\* (higher) index whose entry contains the filter as a contiguous substring
\* and loads that entry into the buffer.
C14_FilteredUpDown ==
    (status = "run" /\ searchActive(R)) =>
        LET has(e) ==
                \E k \in 0 .. (Len(e) - Len(filter)) :
                    SubSeq(e, k + 1, k + Len(filter)) = filter
            same(r2) == r2.historyIdx = historyIdx /\ r2.buffer = buffer
            loaded(r2) ==
                /\ has(history[r2.historyIdx + 1])
                /\ r2.buffer = history[r2.historyIdx + 1]
            up   == dispatch(R, << 27, 91, 65 >>, <<>>)
            down == dispatch(R, << 27, 91, 66 >>, <<>>)
        IN  /\ up.status = "run" /\ up.filter = filter /\ up.history = history
            /\ \/ same(up)
               \/ /\ 0 <= up.historyIdx /\ up.historyIdx < historyIdx
                  /\ loaded(up)
                  /\ \A j \in (up.historyIdx + 1) .. (historyIdx - 1) :
                        ~has(history[j + 1])
            /\ down.status = "run" /\ down.filter = filter
            /\ down.history = history
            /\ \/ same(down)
               \/ /\ historyIdx < down.historyIdx
                  /\ down.historyIdx < Len(history)
                  /\ loaded(down)
                  /\ \A j \in (historyIdx + 1) .. (down.historyIdx - 1) :
                        ~has(history[j + 1])

\* A search for "aa" stands on the newest of three entries; the entry below
\* it does not contain the filter, and Up moves past it to the oldest.
C14_Witness ==
    /\ status = "run" /\ searchActive(R)
    /\ filter = << 97, 97 >>
    /\ Len(history) = 3 /\ historyIdx = 2
    /\ history[2] = << 97 >>
    /\ LET up == dispatch(R, << 27, 91, 65 >>, <<>>)
       IN  up.historyIdx = 0 /\ up.buffer = history[1]

\* C15: while a reverse search is active, a printable byte is appended to the
\* filter; if some history entry contains the new filter, the selected entry
\* afterwards is the one selected before when it contains the filter, the
\* most recent containing entry otherwise, and the buffer equals it; if no
\* entry contains the filter, the selection and the buffer are unchanged.
C15_FilterSelects ==
    (status = "run" /\ searchActive(R)) =>
        \A c \in Printable :
            LET f2 == Append(filter, c)
                has(e) ==
                    \E k \in 0 .. (Len(e) - Len(f2)) :
                        SubSeq(e, k + 1, k + Len(f2)) = f2
                m  == { i \in 0 .. (Len(history) - 1) : has(history[i + 1]) }
                r2 == dispatch(R, << c >>, <<>>)
            IN  /\ r2.status = "run"
                /\ r2.filter = f2
                /\ r2.history = history
                /\ IF m = {}
                   THEN r2.historyIdx = historyIdx /\ r2.buffer = buffer
                   ELSE /\ r2.historyIdx =
                              IF historyIdx \in m THEN historyIdx
                              ELSE CHOOSE i \in m : \A j \in m : i >= j
                        /\ r2.buffer = history[r2.historyIdx + 1]

\* C16: Ctrl-C and Esc, while a reverse search is active, only end the
\* search: the filter becomes absent, the buffer and the cursor stay as they
\* are. With no search active they empty the buffer and put the cursor at 0.
C16_CancelKeys ==
    status = "run" =>
        \A c \in { 3, 27 } :
            LET r2 == dispatch(R, << c >>, <<>>)
            IN  /\ r2.status = "run"
                /\ IF searchActive(R)
                   THEN /\ r2.filter = Nil
                        /\ r2.buffer = buffer
                        /\ r2.bufferPos = bufferPos
                   ELSE /\ r2.buffer = <<>>
                        /\ r2.bufferPos = 0

\* C17 as claimed: whenever no history entry is selected and the history is
\* not empty, Up selects the most recent entry: historyIdx = |history| - 1,
\* the buffer is that entry with the cursor at its end, and the buffer Up
\* found is kept as backup.
C17_UpSelectsNewest ==
    (status = "run" /\ historyIdx = -1 /\ history # <<>>) =>
        LET r2 == dispatch(R, << 27, 91, 65 >>, <<>>)
        IN  /\ r2.status = "run"
            /\ r2.historyIdx = Len(history) - 1
            /\ r2.buffer = history[Len(history)]
            /\ r2.bufferPos = Len(r2.buffer)
            /\ r2.backup = buffer

\* C17 amended: the same, when no reverse search is active.
C17_UpSelectsNewestNoSearch ==
    (status = "run" /\ ~searchActive(R) /\ historyIdx = -1 /\ history # <<>>) =>
        LET r2 == dispatch(R, << 27, 91, 65 >>, <<>>)
        IN  /\ r2.status = "run"
            /\ r2.historyIdx = Len(history) - 1
            /\ r2.buffer = history[Len(history)]
            /\ r2.bufferPos = Len(r2.buffer)
            /\ r2.backup = buffer

\* Up was pressed over a typed line: the newest of several entries is shown,
\* the cursor is at its end and the typed line is the backup.
C17_Witness ==
    /\ status = "run" /\ ~searchActive(R)
    /\ Len(history) >= 2 /\ historyIdx = Len(history) - 1
    /\ buffer = history[Len(history)] /\ bufferPos = Len(buffer)
    /\ backup # Nil /\ Len(backup) > 0 /\ backup # buffer

\* C18: a cursor-position reply ESC [ row ; col R, row and col decimal and at
\* least 1, of one digit or more, sets promptRow to row - 1 clamped to
\* [0, height - 1]; promptRow ends lower only by the scroll compensation of
\* boundPromptRow, when the last row of the buffer would lie below the inner
\* area.
C18_ReplySetsPromptRow ==
    status = "run" =>
        \A row \in { 1, 2, 3, 10 } : \A col \in { 1, 5, 12 } :
            LET dec(n) == IF n < 10 THEN << 48 + n >>
                          ELSE << 48 + (n \div 10), 48 + (n % 10) >>
                reply == << 27, 91 >> \o dec(row) \o << 59 >> \o dec(col)
                             \o << 82 >>
                clamped == Min(Max(row - 1, 0), height - 1)
                n    == IF viewEnd < 0 THEN Len(buffer) ELSE viewEnd
                last == cursorCoord([R EXCEPT !.promptRow = clamped], n)[2]
                r2   == dispatch(R, reply, <<>>)
            IN  /\ r2.status = "run"
                /\ \/ r2.promptRow = clamped
                   \/ /\ last >= innerHeight(R)
                      /\ r2.promptRow =
                             Max(0, clamped - (last + 1 - innerHeight(R)))

\* C19: right after an Enter that called Eval, a message P ++ ESC [ row ; col R,
\* P any non-empty byte string typed while Eval was blocking, is handled as
\* both: promptRow is set from the
\* reply (row - 1 clamped to [0, height - 1], or lower by scroll
\* compensation), and the bytes of P that are >= 32 are inserted at the
\* cursor in their order, the bytes below 32 being dropped.
C19_TextThenReply ==
    (status = "run" /\ evalCalls = 1) =>
        \A P \in { << 97 >>, << 97, 32 >>, << 13, 97 >>, << 9 >>,
                   << 97, 27, 91, 65 >>, << 27, 91, 65 >>, << 27, 79, 80 >> } :
        \A row \in { 1, 2 } :
            LET reply == << 27, 91, 48 + row, 59, 49, 82 >>
                text  == SelectSeq(P, LAMBDA c : c >= 32)
                clamped == Min(Max(row - 1, 0), height - 1)
                r2    == dispatch(R, P \o reply, <<>>)
            IN  /\ r2.status = "run"
                /\ 0 <= r2.promptRow /\ r2.promptRow <= clamped
                /\ r2.buffer = Slice(buffer, 0, bufferPos) \o text
                                   \o Slice(buffer, bufferPos, Len(buffer))
                /\ r2.bufferPos = bufferPos + Len(text)

\* C20: malformed input is ignored without failure. A message that matches no
\* key-table pattern (unknown escape sequence, unbound control byte,
\* multi-byte message that is no escape sequence) or that ends in R with a
\* body that is not decimal row;col (row or col not numeric, or no ';')
\* does not crash and leaves buffer, cursor, viewStart, viewEnd, promptRow,
\* history, historyIdx, backup, filter and prevDel unchanged.
C20_MalformedIgnored ==
    status = "run" =>
        \A b \in { << 27, 91, 90 >>, << 27, 91, 53, 126 >>, << 27, 79, 80 >>,
                   << 27, 91, 49, 59, 53, 65 >>, << 27, 91, 49, 59, 50, 68 >>,
                   << 0 >>, << 7 >>, << 22 >>, << 28 >>,
                   << 195, 169 >>, << 97, 98 >>,
                   << 97, 98, 99, 100, 101, 102, 82 >>,
                   << 27, 91, 97, 59, 49, 82 >>, << 27, 91, 50, 59, 97, 82 >>,
                   << 27, 91, 59, 49, 50, 82 >>, << 27, 91, 50, 59, 59, 82 >>,
                   << 27, 91, 97, 98, 99, 82 >>, << 27, 91, 49, 50, 51, 82 >> } :
            LET r2 == dispatch(R, b, <<>>)
            IN  /\ r2.status = "run"
                /\ r2.buffer = buffer /\ r2.bufferPos = bufferPos
                /\ r2.viewStart = viewStart /\ r2.viewEnd = viewEnd
                /\ r2.promptRow = promptRow
                /\ r2.history = history /\ r2.historyIdx = historyIdx
                /\ r2.backup = backup /\ r2.filter = filter
                /\ r2.prevDel = prevDel

\* C21: with search inactive, Tab calls Handler.Tab once, with the bytes
\* before the cursor, and inserts the string s it returns at the cursor:
\* buffer' = buffer[0:cursor] ++ s ++ buffer[cursor:], cursor' = cursor + |s|,
\* buffer and cursor unchanged when s is empty. With search active
\* Handler.Tab is not called.
C21_TabInserts ==
    status = "run" =>
        \A s \in TabResults \cup { << 97 >>, << 97, 98, 99 >> } :
            LET r2 == dispatch(R, << 9 >>, s)
            IN  /\ r2.status = "run"
                /\ IF searchActive(R)
                   THEN r2.tabCalls = 0
                   ELSE /\ r2.tabCalls = 1
                        /\ r2.tabArg = SubSeq(buffer, 1, bufferPos)
                        /\ r2.buffer = SubSeq(buffer, 1, bufferPos) \o s
                               \o SubSeq(buffer, bufferPos + 1, Len(buffer))
                        /\ r2.bufferPos = bufferPos + Len(s)

\* Handler.Tab has just been called with a non-empty prefix and answered
\* with two spaces, which stand after that prefix, before the cursor.
C21_Witness ==
    /\ status = "run" /\ tabCalls = 1
    /\ tabArg # Nil /\ Len(tabArg) > 0
    /\ bufferPos = Len(tabArg) + 2
    /\ buffer = tabArg \o << 32, 32 >>

\* C22: ReadLine returns on the first message equal to the single byte [13];
\* what it returns is the concatenation, over the messages received before
\* that one, of each message's bytes that are >= 32 and precede the first
\* byte 27 of the message; and it does not change the editor's buffer,
\* cursor or history.
C22_ReadLine ==
    [][LET first27(m) ==
               IF \E k \in 1 .. Len(m) : m[k] = 27
               THEN CHOOSE k \in 1 .. Len(m) :
                        m[k] = 27 /\ \A j \in 1 .. (k - 1) : m[j] # 27
               ELSE Len(m) + 1
           kept(m) ==
               SelectSeq(SubSeq(m, 1, first27(m) - 1), LAMBDA c : c >= 32)
           concat[k \in 0 .. MaxHeard + 1] ==
               IF k = 0 THEN <<>> ELSE concat[k - 1] \o kept(heard'[k])
       IN  /\ lpc' = "loop" =>
                  \A k \in 1 .. Len(heard') : heard'[k] # << 13 >>
           /\ lpc' = "done" =>
                  /\ heard'[Len(heard')] = << 13 >>
                  /\ \A k \in 1 .. (Len(heard') - 1) : heard'[k] # << 13 >>
                  /\ lbuffer' = concat[Len(heard') - 1]
           /\ lpc = "loop" =>
                  /\ buffer' = buffer
                  /\ bufferPos' = bufferPos
                  /\ history' = history]_vars

\* ReadLine has returned "ab" after three messages: a pasted "a" with an
\* Enter inside, "b" cut short by an ESC, and the lone Enter; the line that
\* was being evaluated is still in the editor's buffer.
C22_Witness ==
    /\ lpc = "done"
    /\ heard = << << 97, 13 >>, << 98, 27, 99 >>, << 13 >> >>
    /\ lbuffer = << 97, 98 >>
    /\ buffer # <<>> /\ evalCalls = 1

\* C23: a resize that the size poller detects while no dispatch is in
\* progress stores the new width and height and redraws, leaving the
\* contents of the buffer, the cursor index, history, historyIdx, backup,
\* filter and prevDel as they were; a poll that finds the width and height
\* unchanged changes nothing in the editor.
C23_ResizeKeepsText ==
    status = "run" =>
        \A sz \in Sizes \cup { << 10, 1 >>, << 4, 1 >>, << 40, 2 >>, << 5, 3 >> } :
            LET r2 == resize(R, sz[1], sz[2])
            IN  IF sz = << width, height >>
                THEN r2 = R
                ELSE /\ r2.status = "run"
                     /\ r2.width = sz[1] /\ r2.height = sz[2]
                     /\ r2.buffer = buffer /\ r2.bufferPos = bufferPos
                     /\ r2.history = history /\ r2.historyIdx = historyIdx
                     /\ r2.backup = backup /\ r2.filter = filter
                     /\ r2.prevDel = prevDel

\* C24: phrase jumps use phrase boundaries as targets. The legal targets are
\* 0, |buffer| and the start and the end index of every maximal run of bytes
\* of [0-9A-Za-z_\-\.] in the buffer; Ctrl-Right moves the cursor to the
\* smallest target greater than the cursor, Ctrl-Left to the greatest target
\* less than the cursor, and each changes nothing at the end / the start of
\* the buffer.
C24_PhraseJumps ==
    status = "run" =>
        LET n == Len(buffer)
            word(k) ==
                \/ buffer[k] \in 48 .. 57 \/ buffer[k] \in 65 .. 90
                \/ buffer[k] \in 97 .. 122 \/ buffer[k] \in { 95, 45, 46 }
            starts == { i \in 0 .. (n - 1) :
                          word(i + 1) /\ (i = 0 \/ ~word(i)) }
            ends   == { j \in 1 .. n : word(j) /\ (j = n \/ ~word(j + 1)) }
            targets == { 0, n } \cup starts \cup ends
            above == { t \in targets : t > bufferPos }
            below == { t \in targets : t < bufferPos }
            right == dispatch(R, << 27, 91, 49, 59, 53, 67 >>, <<>>)
            left  == dispatch(R, << 27, 91, 49, 59, 53, 68 >>, <<>>)
        IN  /\ right.status = "run" /\ right.buffer = buffer
            /\ right.bufferPos =
                   IF above = {} THEN bufferPos
                   ELSE CHOOSE t \in above : \A u \in above : t <= u
            /\ left.status = "run" /\ left.buffer = buffer
            /\ left.bufferPos =
                   IF below = {} THEN bufferPos
                   ELSE CHOOSE t \in below : \A u \in below : t >= u

\* The cursor stands at the end of a phrase that a space follows: Ctrl-Left
\* jumps over the phrase to 0, Ctrl-Right steps over the space to the end.
C24_Witness ==
    /\ status = "run"
    /\ buffer = << 97, 97, 32 >> /\ bufferPos = 2
    /\ dispatch(R, << 27, 91, 49, 59, 53, 68 >>, <<>>).bufferPos = 0
    /\ dispatch(R, << 27, 91, 49, 59, 53, 67 >>, <<>>).bufferPos = 3

\* C25 as claimed: with width 20, buffer "ab cd ef" and the cursor at 8,
\* three successive Ctrl-Left messages [27,91,49,59,53,68] move the cursor
\* to 6, then to 3, then to 0.
C25_CtrlLeftStarts ==
    (status = "run" /\ width = 20 /\ bufferPos = 8
        /\ buffer = << 97, 98, 32, 99, 100, 32, 101, 102 >>) =>
        LET m  == << 27, 91, 49, 59, 53, 68 >>
            r1 == dispatch(R, m, <<>>)
            r2 == dispatch(r1, m, <<>>)
            r3 == dispatch(r2, m, <<>>)
        IN  r1.bufferPos = 6 /\ r2.bufferPos = 3 /\ r3.bufferPos = 0

\* C25 amended: five successive Ctrl-Left messages move the cursor to 6,
\* then to 5, to 3, to 2 and to 0: each lands on the nearest start or end of
\* a phrase before the cursor.
C25_CtrlLeftBoundaries ==
    (status = "run" /\ width = 20 /\ bufferPos = 8
        /\ buffer = << 97, 98, 32, 99, 100, 32, 101, 102 >>) =>
        LET m  == << 27, 91, 49, 59, 53, 68 >>
            r1 == dispatch(R, m, <<>>)
            r2 == dispatch(r1, m, <<>>)
            r3 == dispatch(r2, m, <<>>)
            r4 == dispatch(r3, m, <<>>)
            r5 == dispatch(r4, m, <<>>)
        IN  /\ r1.bufferPos = 6 /\ r2.bufferPos = 5 /\ r3.bufferPos = 3
            /\ r4.bufferPos = 2 /\ r5.bufferPos = 0
            /\ r5.status = "run" /\ r5.buffer = buffer

\* "ab cd ef" was typed at width 20, which left the cursor at 8, and two
\* Ctrl-Left have moved it to 5, the end of "cd"; the third takes it to 3.
C25_Witness ==
    /\ status = "run" /\ width = 20 /\ bufferPos = 5
    /\ buffer = << 97, 98, 32, 99, 100, 32, 101, 102 >>
    /\ dispatch(R, << 27, 91, 49, 59, 53, 68 >>, <<>>).bufferPos = 3

\* C26: with search inactive, a message of one byte b, b >= 32 and b # 127,
\* inserts b at the cursor: buffer' = buffer[0:cursor] ++ [b] ++
\* buffer[cursor:] and cursor' = cursor + 1, with the cursor at the end or
\* in the middle, and whether the append in place is kept, is rolled back
\* because the result overflows, or the forced redraw is used.
C26_InsertByte ==
    (status = "run" /\ ~searchActive(R)) =>
        \A b \in Printable \cup { 128 } :
            LET r2 == dispatch(R, << b >>, <<>>)
            IN  /\ r2.status = "run"
                /\ r2.buffer = SubSeq(buffer, 1, bufferPos) \o << b >>
                                   \o SubSeq(buffer, bufferPos + 1, Len(buffer))
                /\ r2.bufferPos = bufferPos + 1

\* The cursor stands at the end of a buffer that fits the terminal; with one
\* more byte it does not, so the append is rolled back and the byte inserted
\* by the forced redraw.
C26_Witness ==
    /\ status = "run" /\ ~searchActive(R)
    /\ Len(buffer) > 0 /\ bufferPos = Len(buffer) /\ ~overflow(R)
    /\ LET r2 == dispatch(R, << 97 >>, <<>>)
       IN  /\ overflow(r2)
           /\ r2.buffer = buffer \o << 97 >>
           /\ r2.bufferPos = bufferPos + 1

\* C27: after every dispatched message, whenever overflow is not active (the
\* rendered height of the whole buffer is at most innerHeight), viewStart = 0
\* and viewEnd is -1 or |buffer|: no window of an earlier overflow or of an
\* earlier length of the buffer survives.
C27_ViewResetWithoutOverflow ==
    (status = "run" /\ ~overflow(R)) =>
        /\ viewStart = 0
        /\ viewEnd = -1 \/ viewEnd = Len(buffer)

\* The buffer overflowed until a kill took bytes out of it: with the killed
\* bytes it would still overflow, and the view is back at its rest values.
C27_Witness ==
    /\ status = "run" /\ ~overflow(R)
    /\ prevDel # Nil /\ Len(buffer) > 0
    /\ overflow([R EXCEPT !.buffer = prevDel \o buffer])
    /\ viewStart = 0 /\ viewEnd = Len(buffer)

\* C28: relCoord(bytes, startX, cursorByte, width) with startX < width is
\* the reference walk: (startX, 0) for cursorByte = 0; each newline before
\* cursorByte moves to (0, y + 1), every other byte advances x by one, and x
\* wraps to (0, y + 1) exactly when it reaches width; so x lies in
\* [0, width - 1] and y does not decrease with cursorByte; and
\* height(bytes) = relCoord(bytes, startX, |bytes|).y + 1. With prompt
\* length 2 and width 5, cursor 6 of "abcdef" is at column 3 of the second
\* row.
C28_RelCoordIsWalk ==
    [][LET b == lay.buffer
           n == Len(lay.buffer)
           w == lay.w
           walk[k \in 0 .. n] ==
               IF k = 0 THEN << lay.x0, 0 >>
               ELSE LET x == IF b[k] = 10 THEN 0 ELSE walk[k - 1][1] + 1
                        y == IF b[k] = 10 THEN walk[k - 1][2] + 1
                             ELSE walk[k - 1][2]
                    IN  IF x = w THEN << 0, y + 1 >> ELSE << x, y >>
           at(k) == walk[IF k > n THEN n ELSE k]
       IN  /\ lay.bufferPos = 0 => lay.xy = << lay.x0, 0 >>
           /\ lay.xy = at(lay.bufferPos)
           /\ lay'.xy = at(lay'.bufferPos)
           /\ lay'.xy[1] \in 0 .. (w - 1)
           /\ lay'.xy[2] >= lay.xy[2]
           /\ lay.height = walk[n][2] + 1
           /\ (b = << 97, 98, 99, 100, 101, 102 >> /\ lay.x0 = 2 /\ w = 5
                   /\ lay'.bufferPos = 6) => lay'.xy = << 3, 1 >>]_vars

\* "abcdef" after a prompt of two columns at width 5, followed to cursor 6:
\* column 3 of the second row, which is also the last: the height is 2.
C28_Witness ==
    /\ lay # <<>>
    /\ lay.buffer = << 97, 98, 99, 100, 101, 102 >>
    /\ lay.x0 = 2 /\ lay.w = 5 /\ lay.bufferPos = 6
    /\ lay.xy = << 3, 1 >> /\ lay.height = 2

\* C29: the reverse-search status can always be rendered: whenever the
\* status row is drawn with a non-empty filter, either no history entry
\* contains the filter ("No matches") or historyIdx selects an entry that
\* contains it, so that cur/tot with 1 <= cur <= tot is shown and
\* filterStatus never reaches panic("unexpected"); this includes a search
\* started on an edited history entry. Stated for the state as it is and for
\* every filter of one or two bytes typed from it.
C29_SearchStatusRenders ==
    LET renders(r) ==
            (statusShowsCount(r) /\ filterTot(r) # 0) =>
                /\ r.historyIdx \in 0 .. (Len(r.history) - 1)
                /\ filterMatches(r, r.history[r.historyIdx + 1])
                /\ filterCur(r) + 1 \in 1 .. filterTot(r)
    IN  (status = "run" /\ searchActive(R)) =>
            /\ renders(R)
            /\ \A f \in { << 97 >>, << 32 >>, << 97, 97 >>, << 97, 32 >> } :
                  renders(typeLine(Fresh, f))

\* C32: cancel returns the editor to the fresh-input state: after Ctrl-C or
\* Esc has cleared the buffer (no search active), historyIdx = -1 and backup
\* is nil, so that a following Down leaves the buffer empty and a following
\* Up selects the most recent history entry; also when the cancel comes
\* while a history entry is selected.
C32_CancelIsFresh ==
    (status = "run" /\ ~searchActive(R)) =>
        \A c \in { 3, 27 } :
            LET r1   == dispatch(R, << c >>, <<>>)
                down == dispatch(r1, << 27, 91, 66 >>, <<>>)
                up   == dispatch(r1, << 27, 91, 65 >>, <<>>)
            IN  r1.status = "run" =>
                    /\ r1.buffer = <<>>
                    /\ r1.historyIdx = -1
                    /\ r1.backup = Nil
                    /\ down.status = "run" => down.buffer = <<>>
                    /\ (up.status = "run" /\ Len(r1.history) > 0) =>
                           /\ up.historyIdx = Len(r1.history) - 1
                           /\ up.buffer = r1.history[Len(r1.history)]


\* ================================ the goroutines of the reader and the poller
\* The bound on the bytes typed.
MaxInput == 3

\* The bytes typed: Enter and a letter.
Keys == { 13, 97 }

\* A key is pressed: its byte waits in the terminal's queue.
Type ==
    /\ Len(arrived) < MaxInput
    /\ \E b \in Keys :
          /\ kernel' = Append(kernel, b)
          /\ arrived' = Append(arrived, b)
    /\ UNCHANGED << edVars, rlVars, lay, width, height, readerSet, readers, bufd, rpc, rb, stopNow,
                    elapsed, rbuffer, locked, fpc, msg, mpc, bts, delivered,
                    ppc, termSize >>

\* More than MACHINE_INTERVAL has passed since lastTime.
Elapse ==
    /\ ~elapsed
    /\ elapsed' = TRUE
    /\ UNCHANGED << edVars, rlVars, lay, width, height, kernel, arrived, readerSet, readers, bufd,
                    rpc, rb, stopNow, rbuffer, locked, fpc, msg, mpc, bts,
                    delivered, ppc, termSize >>

\* read that starts a goroutine whether or not r.reader is set.
read_unguarded ==
    /\ readerSet' = TRUE
    /\ readers' = readers + 1
    /\ bufd' = <<>>
    /\ elapsed' = FALSE
    /\ rpc' = "read"

\* r.reader.read(): a new bufio.Reader and a new goroutine unless one is set.
read ==
    IF readerSet
    THEN UNCHANGED << readerSet, readers, bufd, elapsed, rpc >>
    ELSE /\ readerSet' = TRUE
         /\ readers' = readers + 1
         /\ bufd' = <<>>
         /\ elapsed' = FALSE
         /\ rpc' = "read"

\* Loop calls r.reader.read().
LoopRead ==
    /\ mpc = "read"
    /\ mpc' = "recv"
    /\ read
    /\ UNCHANGED << edVars, rlVars, lay, width, height, kernel, arrived, rb, stopNow,
                    rbuffer, locked, fpc, msg, bts, delivered, ppc, termSize >>

\* b, err := r.reader.ReadByte(): an empty bufio.Reader first reads all that
\* waits on the descriptor; then stopNow is computed and lastTime set.
ReadByte ==
    /\ rpc = "read"
    /\ bufd # <<>> \/ kernel # <<>>
    /\ LET avail == IF bufd = <<>> THEN kernel ELSE bufd
       IN  /\ rb' = Head(avail)
           /\ bufd' = Tail(avail)
           /\ kernel' = IF bufd = <<>> THEN <<>> ELSE kernel
           /\ stopNow' = (Head(avail) = 13 /\ elapsed)
    /\ elapsed' = FALSE
    /\ rpc' = "append"
    /\ UNCHANGED << edVars, rlVars, lay, width, height, arrived, readerSet, readers, rbuffer, locked,
                    fpc, msg, mpc, bts, delivered, ppc, termSize >>

\* Under the lock: r.buffer = append(r.buffer, b).
ReaderAppend ==
    /\ rpc = "append"
    /\ ~locked
    /\ rbuffer' = Append(rbuffer, rb)
    /\ rb' = -1
    /\ rpc' = IF stopNow THEN "stop" ELSE "read"
    /\ UNCHANGED << edVars, rlVars, lay, width, height, kernel, arrived, readerSet, readers, bufd,
                    stopNow, elapsed, locked, fpc, msg, mpc, bts, delivered,
                    ppc, termSize >>

\* r.reader = nil; return: the bufio.Reader goes, and what it had read ahead
\* goes with it.
ReaderStop ==
    /\ rpc = "stop"
    /\ readerSet' = FALSE
    /\ readers' = readers - 1
    /\ bufd' = <<>>
    /\ stopNow' = FALSE
    /\ rpc' = "none"
    /\ UNCHANGED << edVars, rlVars, lay, width, height, kernel, arrived, rb, elapsed,
                    rbuffer, locked, fpc, msg, mpc, bts, delivered, ppc,
                    termSize >>

\* The flusher wakes, takes the lock, finds bytes that have rested for
\* MACHINE_INTERVAL and offers them on the channel, the lock still held.
Flush ==
    /\ fpc = "sleep"
    /\ ~locked
    /\ rbuffer # <<>>
    /\ elapsed
    /\ locked' = TRUE
    /\ msg' = rbuffer
    /\ rbuffer' = <<>>
    /\ fpc' = "send"
    /\ UNCHANGED << edVars, rlVars, lay, width, height, kernel, arrived, readerSet, readers, bufd,
                    rpc, rb, stopNow, elapsed, mpc, bts, delivered, ppc,
                    termSize >>

\* bts := <-r.reader.bytes meets r.bytes <- msg.
Receive ==
    /\ mpc = "recv"
    /\ fpc = "send"
    /\ bts' = msg
    /\ msg' = <<>>
    /\ mpc' = "dispatch"
    /\ fpc' = "unlock"
    /\ UNCHANGED << edVars, rlVars, lay, width, height, kernel, arrived, readerSet, readers, bufd,
                    rpc, rb, stopNow, elapsed, rbuffer, locked, delivered, ppc,
                    termSize >>

\* r.lock.Unlock() of the flusher.
Unlock ==
    /\ fpc = "unlock"
    /\ locked' = FALSE
    /\ fpc' = "sleep"
    /\ UNCHANGED << edVars, rlVars, lay, width, height, kernel, arrived, readerSet, readers, bufd,
                    rpc, rb, stopNow, elapsed, rbuffer, msg, mpc, bts,
                    delivered, ppc, termSize >>

\* r.dispatch(bts) returns (its effect on the editor is Dispatch of Spec).
LoopDispatch ==
    /\ mpc = "dispatch"
    /\ delivered' = delivered \o bts
    /\ bts' = <<>>
    /\ mpc' = "read"
    /\ UNCHANGED << edVars, rlVars, lay, width, height, kernel, arrived, readerSet, readers, bufd,
                    rpc, rb, stopNow, elapsed, rbuffer, locked, fpc, msg, ppc,
                    termSize >>

\* The user resizes the terminal window.
TermResize ==
    /\ \E sz \in Sizes : sz # termSize /\ termSize' = sz
    /\ UNCHANGED << edVars, rlVars, lay, width, height, kernel, arrived, readerSet, readers, bufd,
                    rpc, rb, stopNow, elapsed, rbuffer, locked, fpc, msg, mpc,
                    bts, delivered, ppc >>

\* The poller wakes, r.resize(newW, newH) sees another size, stores it and
\* enters force.
PollResize ==
    /\ ppc = "sleep"
    /\ termSize # << width, height >>
    /\ width' = termSize[1]
    /\ height' = termSize[2]
    /\ ppc' = "force"
    /\ UNCHANGED << edVars, rlVars, lay, ioVarsButPpc >>

\* force returns to the poller (its effect on the editor is Resize of Spec).
PollDone ==
    /\ ppc = "force"
    /\ ppc' = "sleep"
    /\ UNCHANGED << edVars, rlVars, lay, width, height, ioVarsButPpc >>

NextIO ==
    \/ Type \/ Elapse \/ LoopRead \/ ReadByte \/ ReaderAppend \/ ReaderStop
    \/ Flush \/ Receive \/ Unlock \/ LoopDispatch
    \/ TermResize \/ PollResize \/ PollDone

SpecIO == Init /\ [][NextIO]_vars

\* SpecIO with every goroutine scheduled fairly: the reading goroutine, the
\* flusher and Loop each take a step they can take for good, and the clock
\* moves on. Nothing is asked of the user or of the size poller.
SpecIOFair ==
    /\ SpecIO
    /\ WF_vars(ReadByte \/ ReaderAppend \/ ReaderStop)
    /\ WF_vars(Flush \/ Unlock)
    /\ WF_vars(LoopRead \/ Receive \/ LoopDispatch)
    /\ WF_vars(Elapse)


\* ---------------------------------------------- ReadLine reads from the reader
\* Loop is inside dispatch of an Enter, evalBuffer has reached Handler.Eval,
\* and the handler calls ReadLine (basic_repl.go).
EvalCallsReadLine ==
    /\ mpc = "dispatch"
    /\ bts = << 13 >>
    /\ lpc = "none"
    /\ lpc' = "read"
    /\ UNCHANGED << edVars, lay, width, height, ioVars, lbuffer, heard >>

\* ReadLine calls r.reader.read().
ReadLineRead ==
    /\ lpc = "read"
    /\ lpc' = "recv"
    /\ read
    /\ UNCHANGED << edVars, lay, width, height, kernel, arrived, rb, stopNow,
                    rbuffer, locked, fpc, msg, mpc, bts, delivered, ppc,
                    termSize, lbuffer, heard >>

\* bts := <-r.reader.bytes in ReadLine meets r.bytes <- msg; a lone 13 ends
\* ReadLine, any other message is added to its buffer.
ReadLineReceive ==
    /\ lpc = "recv"
    /\ fpc = "send"
    /\ heard' = Append(heard, msg)
    /\ lbuffer' = IF msg = << 13 >> THEN lbuffer
                  ELSE lbuffer \o readLineBytes(msg)
    /\ lpc' = IF msg = << 13 >> THEN "done" ELSE "read"
    /\ msg' = <<>>
    /\ fpc' = "unlock"
    /\ UNCHANGED << edVars, lay, width, height, kernel, arrived, readerSet,
                    readers, bufd, rpc, rb, stopNow, elapsed, rbuffer, locked,
                    mpc, bts, delivered, ppc, termSize >>

\* ReadLine has returned; Eval, evalBuffer and dispatch return to Loop.
EvalReturnsToLoop ==
    /\ mpc = "dispatch"
    /\ lpc = "done"
    /\ delivered' = delivered \o bts
    /\ bts' = <<>>
    /\ mpc' = "read"
    /\ lpc' = "none"
    /\ lbuffer' = <<>>
    /\ heard' = <<>>
    /\ UNCHANGED << edVars, lay, width, height, kernel, arrived, readerSet,
                    readers, bufd, rpc, rb, stopNow, elapsed, rbuffer, locked,
                    fpc, msg, ppc, termSize >>

\* dispatch returns to Loop without a call of ReadLine.
LoopDispatchAlone == lpc = "none" /\ LoopDispatch

NextIOReadLine ==
    \/ Type \/ Elapse \/ LoopRead \/ ReadByte \/ ReaderAppend \/ ReaderStop
    \/ Flush \/ Receive \/ Unlock \/ LoopDispatchAlone
    \/ EvalCallsReadLine \/ ReadLineRead \/ ReadLineReceive
    \/ EvalReturnsToLoop
    \/ TermResize \/ PollResize \/ PollDone

SpecIOReadLine == Init /\ [][NextIOReadLine]_vars


\* ========================================== properties of the input pipeline
\* C6: the poller's resize is serialized with the dispatcher: the poller is
\* never inside force while Loop is inside dispatch.
C6_ResizeSerialized == ~(mpc = "dispatch" /\ ppc = "force")

\* C7: the reader neither loses, duplicates nor reorders input: every
\* message dispatched is non-empty, and the bytes dispatched, followed by
\* those on their way through the reader, are the bytes typed, in order.
C7_InputConserved ==
    /\ mpc = "dispatch" => bts # <<>>
    /\ delivered \o bts \o msg \o rbuffer
           \o (IF rb >= 0 THEN << rb >> ELSE <<>>) \o bufd \o kernel
       = arrived

\* C30: input never hangs: with the reading goroutine, the flusher and Loop
\* scheduled fairly, every byte that arrives on stdin is eventually
\* dispatched; and Loop never waits on the channel for good with no reading
\* goroutine running and nothing pending in the reader's buffer.
C30_InputNeverHangs ==
    /\ \A n \in 1 .. MaxInput :
          (Len(arrived) >= n)
              ~> (Len(delivered) >= n
                    /\ SubSeq(delivered, 1, n) = SubSeq(arrived, 1, n))
    /\ ~<>[](/\ mpc = "recv"
             /\ rpc = "none"
             /\ ~readerSet
             /\ rbuffer = <<>>
             /\ fpc = "sleep")

\* C31: at most one reading goroutine reads stdin at any time: however the
\* calls of read() from Loop and from ReadLine interleave with a goroutine
\* that stops on a carriage return, a new goroutine is started only after
\* the one before has done its last read and its last append to the buffer.
C31_OneReader ==
    [][/\ readers' <= 1
       /\ readers' > readers =>
              /\ readers = 0
              /\ rpc = "none"
              /\ rb = -1
              /\ ~stopNow]_vars

\* A carriage return and an "a" arrived together after an idle gap; the
\* goroutine that read both has stopped (the "a" it had read ahead is
\* nowhere), and ReadLine, called for the carriage return, has started the
\* next goroutine and waits for a message.
C31_Witness ==
    /\ arrived = << 13, 97 >>
    /\ mpc = "dispatch" /\ bts = << 13 >>
    /\ lpc = "recv"
    /\ readers = 1 /\ rpc = "read"
    /\ kernel = <<>> /\ bufd = <<>> /\ rb = -1
    /\ rbuffer = <<>> /\ msg = <<>> /\ heard = <<>>

====
